---------------------------- MODULE Spec2Model ----------------------------
(***************************************************************************)
(* Verification model of the mercadopublico-scraper pipeline.              *)
(*                                                                         *)
(*   token-manager.js  (src/unnamed/part_005)  credential file, token      *)
(*                                             lifecycle, inspectToken     *)
(*   scraper-final.js  (lines 463-784)         page fetch with retries     *)
(*   scraper-final.js  (lines 463-784)         scrape(): the page loop     *)
(*   enricher.js       (src/unnamed/part_000)  detail fetch with retries,  *)
(*                                             shouldEnrich, the windows   *)
(*   scraper-final.js  (lines 727-781)         the command line, exit code *)
(*   session-monitor.js                        health verdict, exit code   *)
(*   server.js                                 /api/scrape/run, the guard  *)
(*   run-daily.sh      (src/unnamed/part_006)  health check, then crawl    *)
(*                                                                         *)
(* Time is in epoch seconds.  A JavaScript null / undefined / 0 expiry is  *)
(* written 0 throughout: the code only ever tests such values for          *)
(* truthiness (x || y, if (!x)), so the three are indistinguishable to it. *)
(***************************************************************************)
EXTENDS Integers, Sequences, FiniteSets, TLC

VARIABLES
    file,     \* session.json on disk: [kind, cookies]
    now,      \* Math.floor(Date.now() / 1000)
    gvt,      \* the getValidToken call in progress or last completed
    insp,     \* the last inspectToken call
    ex,       \* one retrying request executor (page fetch or detail fetch)
    cr,       \* the scrape() run: page loop, result files, outcome
    en,       \* the enrichOpportunities() run: windows and their tasks
    se,       \* one shouldEnrich(opportunity, nowMs) evaluation
    cli,      \* one run of the crawl's command line: options, exit code
    mon,      \* one run of session-monitor.js: signals, verdict, exit code
    web,      \* the web server: the guard, console.log, the run's stream
    flow      \* one run of run-daily.sh: the two exit codes, its own

vars == <<file, now, gvt, insp, ex, cr, en, se, cli, mon, web, flow>>

---------------------------------------------------------------------------
(* Bounds of the model *)

\* epoch second at which the model starts its clock
Now0 == 1000
\* seconds the clock advances in one step
TickStep == 200
\* number of clock steps
MaxTicks == 1
\* longest cookie list of an initial credential file
MaxCookies == 3
\* largest maxRetries option given to a detail fetch
MaxRetriesOpt == 3

---------------------------------------------------------------------------
(* Program constants *)

ACCESS_MIN_VALIDITY_SECONDS == 300

\* Stands for every epoch-second value above 8.64e12, whose millisecond form
\* lies outside the ECMAScript time range so that new Date(ms).toISOString()
\* throws RangeError.  Values that large do not fit TLC's integers; the model
\* uses this one representative.
HugeEpoch == 2000000000

---------------------------------------------------------------------------
(* Tokens and cookie records *)

\* A cookie value: id 0 is the empty / missing string; exp is the exp claim
\* of the JWT payload, 0 when the value is not a JWT or carries no finite exp.
Tok(i, e) == [id |-> i, exp |-> e]
NoToken == Tok(0, 0)

\* {name, value, expires}; domain, path and the flags are copied along
\* unchanged and take part in no decision.
Cookie(n, v, x) == [name |-> n, value |-> v, expires |-> x]

\* decodeJwtExp: null for a falsy or non-JWT value, else the payload's exp
decodeJwtExp(token) == IF token.id = 0 THEN 0 ELSE token.exp

\* normalizeEpochSeconds: a positive number, else null
normalizeEpochSeconds(value) == IF value > 0 THEN value ELSE 0

\* secondsRemaining is null when there is no expiry
HasRemaining(expEpochSeconds) == expEpochSeconds # 0
secondsRemaining(expEpochSeconds, t) == expEpochSeconds - t

\* Index of the first cookie called name, 0 when there is none
\* (cookies.find((cookie) => cookie && cookie.name === name)).
FirstIdx(cookies, name) ==
    IF \E i \in 1..Len(cookies) : cookies[i].name = name
    THEN CHOOSE i \in 1..Len(cookies) :
            /\ cookies[i].name = name
            /\ \A j \in 1..(i - 1) : cookies[j].name # name
    ELSE 0

RECURSIVE findCookie(_, _)
\* findCookie: first match over the priority list of names, as an index
findCookie(cookies, names) ==
    IF names = <<>> THEN 0
    ELSE IF FirstIdx(cookies, Head(names)) # 0
         THEN FirstIdx(cookies, Head(names))
         ELSE findCookie(cookies, Tail(names))

\* findCookie(['access_token_ccr']) || findCookie(['access_token']) || null
AccessIdx(cookies) == findCookie(cookies, <<"access_token_ccr", "access_token">>)
RefreshIdx(cookies) == findCookie(cookies, <<"refresh_token">>)

ValueAt(cookies, i) == IF i = 0 THEN NoToken ELSE cookies[i].value
ExpiresAt(cookies, i) == IF i = 0 THEN 0 ELSE cookies[i].expires

---------------------------------------------------------------------------
(* The credential file *)

FileKinds == {"missing", "notjson", "null", "scalar", "nocookies", "object"}

File(k, cs) == [kind |-> k, cookies |-> cs]

\* readSessionFileOrThrow: the parsed session, or TokenExpiredError when the
\* file cannot be read or parsed.  JSON null parses but parsed.cookies then
\* raises inside the same try block; on a JSON scalar the assignment of
\* cookies is silently dropped and the callers see no cookie list.
ReadThrows(f) == f.kind \in {"missing", "notjson", "null"}
ReadCookies(f) == IF f.kind = "object" THEN f.cookies ELSE <<>>

---------------------------------------------------------------------------
(* Errors *)

Err(n, r) == [name |-> n, requiresManualReauth |-> r]
NoError == Err("none", FALSE)
TokenExpiredError == Err("TokenExpiredError", TRUE)
TokenRefreshError == Err("TokenRefreshError", TRUE)
RangeError == Err("RangeError", FALSE)

---------------------------------------------------------------------------
(* The token endpoint's answer to one refresh-grant request *)

\* expires_in / refresh_expires_in absent from the payload
NoField == -1

\* net: "response" (a status line and a body arrived), "timeout" (the 20 s
\* request timeout fired) or "error" (socket error).  access / refresh are
\* NoToken when the payload has no such field (or an empty one).
Resp(n, st, p, a, r, ei, rei) ==
    [net |-> n, status |-> st, parseable |-> p, access |-> a, refresh |-> r,
     expires_in |-> ei, refresh_expires_in |-> rei]

NoResp == Resp("none", 0, FALSE, NoToken, NoToken, NoField, NoField)

\* Fields the code treats as finite numbers: Number.isFinite(Number(x))
IsFiniteField(x) == x # NoField

\* Variant: the status line is not looked at
RefreshResolves_AnyStatus(resp) ==
    /\ resp.net = "response"
    /\ resp.parseable
    /\ resp.access.id # 0

\* requestTokenRefresh resolves with the payload only for a 200 whose body
\* parses and carries a truthy access_token; everything else rejects with
\* TokenRefreshError.
RefreshResolves(resp) ==
    /\ resp.net = "response"
    /\ resp.status = 200
    /\ resp.parseable
    /\ resp.access.id # 0

---------------------------------------------------------------------------
(* persistRefreshedTokens *)

\* upsertCookie: overwrite the first record of that name (its expiry only
\* when the new one is known), else append a synthetic record.
upsertCookie(cookies, name, value, expEpochSeconds) ==
    LET expires == normalizeEpochSeconds(expEpochSeconds)
        i == FirstIdx(cookies, name)
    IN  IF i # 0
        THEN [cookies EXCEPT ![i] =
                 [@ EXCEPT !.value = value,
                           !.expires = IF expires # 0 THEN expires ELSE @]]
        ELSE Append(cookies, Cookie(name, value, IF expires # 0 THEN expires ELSE -1))

\* decodeJwtExp(accessToken) || (finite expires_in ? now + expires_in : null)
RefreshedAccessExp(refreshed, t) ==
    IF decodeJwtExp(refreshed.access) # 0 THEN decodeJwtExp(refreshed.access)
    ELSE IF IsFiniteField(refreshed.expires_in) THEN t + refreshed.expires_in
    ELSE 0

\* Variant: no fallback to the prior refresh token
RefreshedRefreshToken_NoFallback(refreshed, fallback) == refreshed.refresh

\* refreshed.refresh_token || fallbackRefreshCookie.value
RefreshedRefreshToken(refreshed, fallback) ==
    IF refreshed.refresh.id # 0 THEN refreshed.refresh ELSE fallback.value

RefreshedRefreshExp(refreshed, fallback, t) ==
    LET rt == RefreshedRefreshToken(refreshed, fallback)
    IN  IF decodeJwtExp(rt) # 0 THEN decodeJwtExp(rt)
        ELSE IF IsFiniteField(refreshed.refresh_expires_in)
             THEN t + refreshed.refresh_expires_in
        ELSE normalizeEpochSeconds(fallback.expires)

\* Variant: only the access_token record is written, not access_token_ccr
persistRefreshedTokens_OneAlias(cookies, refreshed, fallback, t) ==
    LET accessExp == RefreshedAccessExp(refreshed, t)
        c2 == upsertCookie(cookies, "access_token", refreshed.access, accessExp)
    IN  upsertCookie(c2, "refresh_token",
                     RefreshedRefreshToken(refreshed, fallback),
                     RefreshedRefreshExp(refreshed, fallback, t))

\* The cookie list written back to session.json
persistRefreshedTokens(cookies, refreshed, fallback, t) ==
    LET accessExp == RefreshedAccessExp(refreshed, t)
        c1 == upsertCookie(cookies, "access_token_ccr", refreshed.access, accessExp)
        c2 == upsertCookie(c1, "access_token", refreshed.access, accessExp)
    IN  upsertCookie(c2, "refresh_token",
                     RefreshedRefreshToken(refreshed, fallback),
                     RefreshedRefreshExp(refreshed, fallback, t))

---------------------------------------------------------------------------
(* getValidToken *)

\* pc         "idle", "refreshing" (awaiting requestTokenRefresh), "returned", "failed"
\* cookies    session.cookies as held in memory
\* sent       the refresh token posted to the token endpoint
\* resp       the endpoint's answer
\* token      the value returned; tokenExp its expiry as the code computed it
\* err        the error thrown
\* refreshes  refresh-grant requests issued by this call
\* writes     writes of session.json by this call
\* fileAtCall session.json when the call began; callAt / retAt the clock then
\*            and when the call ended
GvtRec(pc, cookies, sent, token, tokenExp, err, refreshes, writes, f, callAt, retAt) ==
    [pc |-> pc, cookies |-> cookies, sent |-> sent, resp |-> NoResp, token |-> token,
     tokenExp |-> tokenExp, err |-> err, refreshes |-> refreshes,
     writes |-> writes, fileAtCall |-> f, callAt |-> callAt, retAt |-> retAt]

GvtIdle == GvtRec("idle", <<>>, NoToken, NoToken, 0, NoError, 0, 0, File("missing", <<>>), 0, 0)

\* decodeJwtExp(accessToken) || normalizeEpochSeconds(accessCookie.expires)
StoredAccessExp(cookies) ==
    LET i == AccessIdx(cookies)
    IN  IF decodeJwtExp(ValueAt(cookies, i)) # 0
        THEN decodeJwtExp(ValueAt(cookies, i))
        ELSE normalizeEpochSeconds(ExpiresAt(cookies, i))

\* Variant: only the token's own exp claim dates it
StoredTokenUsable_JwtOnly(cookies, t) ==
    /\ ValueAt(cookies, AccessIdx(cookies)).id # 0
    /\ decodeJwtExp(ValueAt(cookies, AccessIdx(cookies))) # 0
    /\ decodeJwtExp(ValueAt(cookies, AccessIdx(cookies))) - t > ACCESS_MIN_VALIDITY_SECONDS

\* accessToken && remaining !== null && remaining > ACCESS_MIN_VALIDITY_SECONDS
StoredTokenUsable(cookies, t) ==
    /\ ValueAt(cookies, AccessIdx(cookies)).id # 0
    /\ HasRemaining(StoredAccessExp(cookies))
    /\ secondsRemaining(StoredAccessExp(cookies), t) > ACCESS_MIN_VALIDITY_SECONDS

\* Variant: the record's value is not looked at
NoRefreshToken_RecordOnly(cookies) == RefreshIdx(cookies) = 0

\* !refreshCookie || !refreshCookie.value
NoRefreshToken(cookies) == ValueAt(cookies, RefreshIdx(cookies)).id = 0

\* The synchronous part of getValidToken, from the read of session.json to
\* the first of: return of the stored token, a throw, the refresh request.
GvtBegin(f, t) ==
    LET cookies == ReadCookies(f)
    IN  IF ReadThrows(f)
        THEN GvtRec("failed", <<>>, NoToken, NoToken, 0, TokenExpiredError, 0, 0, f, t, t)
        ELSE IF StoredTokenUsable(cookies, t)
        THEN GvtRec("returned", cookies, NoToken, ValueAt(cookies, AccessIdx(cookies)),
                    StoredAccessExp(cookies), NoError, 0, 0, f, t, t)
        ELSE IF NoRefreshToken(cookies)
        THEN GvtRec("failed", cookies, NoToken, NoToken, 0, TokenExpiredError, 0, 0, f, t, t)
        ELSE GvtRec("refreshing", cookies, ValueAt(cookies, RefreshIdx(cookies)),
                    NoToken, 0, NoError, 1, 0, f, t, 0)

\* Variant: a failed refresh is sent once more
GvtAfterRefresh_Retrying(g, resp, t) ==
    IF RefreshResolves(resp)
    THEN [g EXCEPT !.pc = "returned",
                   !.resp = resp,
                   !.cookies = persistRefreshedTokens(g.cookies, resp,
                                   g.cookies[RefreshIdx(g.cookies)], t),
                   !.token = resp.access,
                   !.tokenExp = RefreshedAccessExp(resp, t),
                   !.writes = @ + 1,
                   !.retAt = t]
    ELSE IF g.refreshes < 2
    THEN [g EXCEPT !.resp = resp, !.refreshes = @ + 1]
    ELSE [g EXCEPT !.pc = "failed", !.resp = resp, !.err = TokenRefreshError, !.retAt = t]

\* The continuation of getValidToken when the refresh request settles.
GvtAfterRefresh(g, resp, t) ==
    IF RefreshResolves(resp)
    THEN [g EXCEPT !.pc = "returned",
                   !.resp = resp,
                   !.cookies = persistRefreshedTokens(g.cookies, resp,
                                   g.cookies[RefreshIdx(g.cookies)], t),
                   !.token = resp.access,
                   !.tokenExp = RefreshedAccessExp(resp, t),
                   !.writes = @ + 1,
                   !.retAt = t]
    ELSE [g EXCEPT !.pc = "failed", !.resp = resp, !.err = TokenRefreshError, !.retAt = t]

\* fs.writeFileSync(SESSION_PATH, JSON.stringify(session)) on a resolved refresh
FileAfterRefresh(f, g, resp, t) ==
    IF RefreshResolves(resp)
    THEN File("object", persistRefreshedTokens(g.cookies, resp,
                            g.cookies[RefreshIdx(g.cookies)], t))
    ELSE f

---------------------------------------------------------------------------
(* inspectToken *)

\* A boolean-or-null of the returned state
Tri(known, b) == IF ~known THEN "null" ELSE IF b THEN "true" ELSE "false"

\* new Date(expEpochSeconds * 1000).toISOString() throws RangeError when the
\* time value is outside the ECMAScript range
IsoThrows(expEpochSeconds) == expEpochSeconds >= HugeEpoch

\* buildTokenState(cookieName, cookieValue, cookieExpires)
buildTokenState(cookies, i, t) ==
    LET jwtExp == decodeJwtExp(ValueAt(cookies, i))
        cookieExp == normalizeEpochSeconds(ExpiresAt(cookies, i))
        expEpochSeconds == IF jwtExp # 0 THEN jwtExp ELSE cookieExp
        known == HasRemaining(expEpochSeconds)
        remaining == secondsRemaining(expEpochSeconds, t)
    IN  [present |-> ValueAt(cookies, i).id # 0,
         expiresAtEpochSeconds |-> expEpochSeconds,
         secondsRemaining |-> IF known THEN remaining ELSE 0,
         hasRemaining |-> known,
         isExpired |-> Tri(known, remaining <= 0),
         isExpiringSoon |-> Tri(known, remaining <= ACCESS_MIN_VALIDITY_SECONDS)]

NoTokenState == buildTokenState(<<>>, 0, 0)

InspRec(pc, a, r, e, thrown) ==
    [pc |-> pc, accessToken |-> a, refreshToken |-> r, error |-> e, thrown |-> thrown]

InspNone == InspRec("none", NoTokenState, NoTokenState, FALSE, NoError)

\* inspectToken(): error is session._error || null, set by readSessionFileSafe
\* when readSessionFileOrThrow threw.
inspectToken(f, t) ==
    LET cookies == ReadCookies(f)
        a == buildTokenState(cookies, AccessIdx(cookies), t)
        r == buildTokenState(cookies, RefreshIdx(cookies), t)
    IN  IF IsoThrows(a.expiresAtEpochSeconds) \/ IsoThrows(r.expiresAtEpochSeconds)
        THEN InspRec("threw", NoTokenState, NoTokenState, FALSE, RangeError)
        ELSE InspRec("returned", a, r, ReadThrows(f), NoError)

---------------------------------------------------------------------------
(* Inputs: credential files and token endpoint answers *)

CookiePool ==
    { Cookie("access_token_ccr", Tok(1, Now0 + 400), -1),
      Cookie("access_token", Tok(2, Now0 + 300), Now0 + 3600),
      Cookie("access_token", Tok(3, 0), Now0 + 301),
      Cookie("access_token_ccr", NoToken, Now0 + 3600),
      Cookie("access_token", Tok(4, 0), -1),
      Cookie("refresh_token", Tok(5, Now0 + 5000), -1),
      Cookie("refresh_token", NoToken, Now0 + 3600),
      Cookie("KEYCLOAK_SESSION", Tok(6, 0), Now0 + 9000) }

RECURSIVE SeqsUpTo(_, _)
SeqsUpTo(S, n) ==
    IF n = 0 THEN {<<>>}
    ELSE SeqsUpTo(S, n - 1) \cup
         {Append(q, c) : q \in {x \in SeqsUpTo(S, n - 1) : Len(x) = n - 1}, c \in S}

InitialFiles ==
    {File(k, <<>>) : k \in FileKinds \ {"object"}} \cup
    {File("object", cs) : cs \in SeqsUpTo(CookiePool, MaxCookies)}

\* Records whose expiry lies beyond the ECMAScript time range
FarFutureCookies ==
    { Cookie("access_token", Tok(8, HugeEpoch), -1),
      Cookie("refresh_token", Tok(9, 0), HugeEpoch) }

InspectedFiles ==
    {File(k, <<>>) : k \in FileKinds \ {"object"}} \cup
    {File("object", cs) : cs \in SeqsUpTo(CookiePool \cup FarFutureCookies, MaxCookies)}

NewAccessTokens == {Tok(11, Now0 + 3600), Tok(12, 0), Tok(13, Now0 + 500)}
NewRefreshTokens == {NoToken, Tok(15, Now0 + 7000)}

RefreshResponses ==
    { Resp("timeout", 0, FALSE, NoToken, NoToken, NoField, NoField),
      Resp("error", 0, FALSE, NoToken, NoToken, NoField, NoField),
      Resp("response", 400, TRUE, NoToken, NoToken, NoField, NoField),
      Resp("response", 500, TRUE, Tok(11, Now0 + 3600), NoToken, 3600, NoField),
      Resp("response", 200, FALSE, NoToken, NoToken, NoField, NoField),
      Resp("response", 200, TRUE, NoToken, Tok(15, Now0 + 7000), 3600, 1800) }
    \cup
    { Resp("response", 200, TRUE, a, r, life[1], life[2]) :
        a \in NewAccessTokens, r \in NewRefreshTokens,
        life \in {<<NoField, NoField>>, <<3600, 1800>>} }

---------------------------------------------------------------------------
(* The retrying request executors: CompraAgilScraper.fetchOpportunities    *)
(* (page fetch) and requestDetailWithRetry (detail fetch)                  *)

\* this.maxAttempts
MaxAttempts == 3
\* delaySeconds * 1000
BackoffBaseMs == 1000

\* What one GET ends in: a response (status, body parseable as JSON or not),
\* the request timeout, or a socket error.
Outcome(n, st, p) == [net |-> n, status |-> st, parseable |-> p]

HttpOutcomes ==
    { Outcome("response", 200, TRUE), Outcome("response", 200, FALSE),
      Outcome("response", 400, TRUE), Outcome("response", 401, TRUE),
      Outcome("response", 404, TRUE), Outcome("response", 429, TRUE),
      Outcome("response", 500, TRUE), Outcome("response", 503, FALSE),
      Outcome("timeout", 0, FALSE), Outcome("error", 0, FALSE) }

\* An error object: statusCode 0 when the property is not set, retryable
\* "true" / "false" / "undefined", code "" when not set.
ExErr(n, c, st, r, m) ==
    [name |-> n, code |-> c, statusCode |-> st, retryable |-> r,
     requiresManualReauth |-> m]
ExNoError == ExErr("none", "", 0, "undefined", FALSE)
ExTokenExpired == ExErr("TokenExpiredError", "", 0, "undefined", TRUE)
ExLift(e) == ExErr(e.name, "", 0, "undefined", e.requiresManualReauth)

\* error.statusCode >= 500 && error.statusCode < 600
Is5xx(st) == st >= 500 /\ st < 600

\* requestOpportunities: how the promise settles; ok means resolved with the
\* parsed body.
requestOpportunities(o) ==
    IF o.net = "timeout"
    THEN [ok |-> FALSE, err |-> ExErr("Error", "ETIMEDOUT", 0, "true", FALSE)]
    ELSE IF o.net = "error"
    THEN [ok |-> FALSE, err |-> ExErr("Error", "ECONNRESET", 0, "true", FALSE)]
    ELSE IF o.status = 200
    THEN IF o.parseable THEN [ok |-> TRUE, err |-> ExNoError]
         ELSE [ok |-> FALSE, err |-> ExErr("Error", "", 0, "false", FALSE)]
    ELSE IF o.status = 401
    THEN [ok |-> FALSE, err |-> ExTokenExpired]
    ELSE [ok |-> FALSE,
          err |-> ExErr("Error", "", o.status,
                        IF Is5xx(o.status) THEN "true" ELSE "false", FALSE)]

\* Variant: a 401 is reported like any other non-200 status
requestDetail_Plain401(o) ==
    IF o.net = "timeout"
    THEN [ok |-> FALSE, err |-> ExErr("Error", "ETIMEDOUT", 0, "true", FALSE)]
    ELSE IF o.net = "error"
    THEN [ok |-> FALSE, err |-> ExErr("Error", "ECONNRESET", 0, "true", FALSE)]
    ELSE IF o.status = 200
    THEN IF o.parseable THEN [ok |-> TRUE, err |-> ExNoError]
         ELSE [ok |-> FALSE, err |-> ExErr("Error", "", 0, "false", FALSE)]
    ELSE [ok |-> FALSE,
          err |-> ExErr("Error", "", o.status,
                        IF Is5xx(o.status) THEN "true" ELSE "false", FALSE)]

\* requestDetail: the same settlement for the detail endpoint
requestDetail(o) ==
    IF o.net = "timeout"
    THEN [ok |-> FALSE, err |-> ExErr("Error", "ETIMEDOUT", 0, "true", FALSE)]
    ELSE IF o.net = "error"
    THEN [ok |-> FALSE, err |-> ExErr("Error", "ECONNRESET", 0, "true", FALSE)]
    ELSE IF o.status = 200
    THEN IF o.parseable THEN [ok |-> TRUE, err |-> ExNoError]
         ELSE [ok |-> FALSE, err |-> ExErr("Error", "", 0, "false", FALSE)]
    ELSE IF o.status = 401
    THEN [ok |-> FALSE, err |-> ExTokenExpired]
    ELSE [ok |-> FALSE,
          err |-> ExErr("Error", "", o.status,
                        IF Is5xx(o.status) THEN "true" ELSE "false", FALSE)]

\* Variant: every error status counts as retryable
isRetryable_AnyStatus(err) == err.retryable = "true" \/ err.statusCode >= 400

\* error.retryable === true || (statusCode >= 500 && statusCode < 600)
isRetryable(err) == err.retryable = "true" \/ Is5xx(err.statusCode)

\* Variant: the last attempt is taken to be maxAttempts + 1
PageRethrows_OffByOne(err, attempt) ==
    \/ err.name = "TokenExpiredError"
    \/ err.statusCode = 400
    \/ ~(err.retryable = "true" \/ Is5xx(err.statusCode))
    \/ attempt = MaxAttempts + 1

\* The catch block of fetchOpportunities: TRUE when the error is rethrown
\* (attempt runs 1..maxAttempts)
PageRethrows(err, attempt) ==
    \/ err.name = "TokenExpiredError"
    \/ err.statusCode = 400
    \/ ~isRetryable(err)
    \/ attempt = MaxAttempts

\* The catch block of requestDetailWithRetry (attempt runs 0..maxRetries)
DetailRethrows(err, attempt, maxRetries) ==
    \/ err.name = "TokenExpiredError"
    \/ err.statusCode = 400
    \/ err.statusCode = 401
    \/ ~isRetryable(err)
    \/ attempt = maxRetries

RECURSIVE Pow2(_)
Pow2(n) == IF n <= 0 THEN 1 ELSE 2 * Pow2(n - 1)

\* Variant: the exponent is the 1-based attempt number
PageDelayMs_OneBased(attempt) == Pow2(attempt) * BackoffBaseMs

\* 2 ** (attempt - 1) seconds, in milliseconds
PageDelayMs(attempt) == Pow2(attempt - 1) * BackoffBaseMs
\* 2 ** attempt seconds, in milliseconds
DetailDelayMs(attempt) == Pow2(attempt) * BackoffBaseMs

\* kind       "page" or "detail"
\* pc         "idle", "awaitToken" (ensureToken pending), "inflight",
\*            "sleeping" (backoff), "done", "failed"
\* attempt    the loop variable
\* maxRetries the detail fetch's maxRetries; maxAttempts - 1 for a page fetch
\* bearer     the token sent in the Authorization header
\* requests   GET requests issued so far
\* outcomes   what each of them ended in, in order
\* sleeps     the backoff delays taken, in order
\* ok         resolved with the parsed body
\* err        the error the call rejected with
ExRec(kind, pc, attempt, maxRetries, bearer, requests, outcomes, sleeps, ok, err) ==
    [kind |-> kind, pc |-> pc, attempt |-> attempt, maxRetries |-> maxRetries,
     bearer |-> bearer, requests |-> requests, outcomes |-> outcomes,
     sleeps |-> sleeps, ok |-> ok, err |-> err]

ExIdle == ExRec("page", "idle", 0, 0, NoToken, 0, <<>>, <<>>, FALSE, ExNoError)

\* fetchOpportunities up to its first await: ensureToken() is pending
PageFetchBegin == ExRec("page", "awaitToken", 0, MaxAttempts - 1, NoToken, 0, <<>>, <<>>, FALSE, ExNoError)

\* ensureToken settled: its error propagates, else the loop starts with
\* attempt = 1 and the first request goes out
PageFetchAfterToken(e, g) ==
    IF g.pc = "failed"
    THEN [e EXCEPT !.pc = "failed", !.err = ExLift(g.err)]
    ELSE [e EXCEPT !.pc = "inflight", !.attempt = 1, !.bearer = g.token, !.requests = 1]

\* requestDetailWithRetry: the loop starts with attempt = 0
DetailFetchBegin(bearerToken, maxRetries) ==
    IF 0 <= maxRetries
    THEN ExRec("detail", "inflight", 0, maxRetries, bearerToken, 1, <<>>, <<>>, FALSE, ExNoError)
    ELSE ExRec("detail", "failed", 0, maxRetries, bearerToken, 0, <<>>, <<>>, FALSE,
               ExErr("Error", "", 0, "undefined", FALSE))

ExSettle(e, o) == IF e.kind = "page" THEN requestOpportunities(o) ELSE requestDetail(o)

ExRethrows(e, err) ==
    IF e.kind = "page" THEN PageRethrows(err, e.attempt)
    ELSE DetailRethrows(err, e.attempt, e.maxRetries)

ExDelayMs(e) == IF e.kind = "page" THEN PageDelayMs(e.attempt) ELSE DetailDelayMs(e.attempt)

\* The request in flight ends in o: return, rethrow, or start the backoff sleep
ExOnOutcome(e, o) ==
    LET r == ExSettle(e, o)
        seen == [e EXCEPT !.outcomes = Append(@, o)]
    IN  IF r.ok THEN [seen EXCEPT !.pc = "done", !.ok = TRUE]
        ELSE IF ExRethrows(e, r.err) THEN [seen EXCEPT !.pc = "failed", !.err = r.err]
        ELSE [seen EXCEPT !.pc = "sleeping", !.sleeps = Append(@, ExDelayMs(e))]

\* The loop's bound: attempt <= maxAttempts, attempt <= maxRetries
ExLoopContinues(e) ==
    IF e.kind = "page" THEN e.attempt + 1 <= MaxAttempts
    ELSE e.attempt + 1 <= e.maxRetries

\* The backoff sleep is over: the next iteration issues its request, or the
\* loop is exhausted and the trailing throw runs
ExOnWake(e) ==
    IF ExLoopContinues(e)
    THEN [e EXCEPT !.pc = "inflight", !.attempt = @ + 1, !.requests = @ + 1]
    ELSE [e EXCEPT !.pc = "failed", !.attempt = @ + 1,
                   !.err = ExErr("Error", "", 0, "undefined", FALSE)]

---------------------------------------------------------------------------
(* Listings and the enrichment filter: parseClosingDate, shouldEnrich      *)
(*                                                                         *)
(* Times of this section are in milliseconds, as Date.getTime() gives them;*)
(* nowMs is the clock of the model times 1000.                             *)

\* A JSON value as a listing field holds it.  For a string, s is its text
\* ("nan" stands for any text that is no numeral) and n the number it spells.
Js(t, s, n) == [t |-> t, s |-> s, n |-> n]
JsUndefined == Js("undefined", "", 0)
JsNull == Js("null", "", 0)
JsNum(n) == Js("number", "", n)
JsStr(s, n) == Js("string", s, n)

\* Number(v): NaN for undefined and for a string that is no numeral, 0 for
\* null and for the empty string
ToNumber(v) ==
    IF v.t = "undefined" \/ (v.t = "string" /\ v.s = "nan")
    THEN [nan |-> TRUE, n |-> 0]
    ELSE IF v.t = "null" THEN [nan |-> FALSE, n |-> 0]
    ELSE [nan |-> FALSE, n |-> v.n]

\* Invalid Date / null
NoTime == -1

\* A fechaCierre value.  kind is its JSON type ("undefined" when the field
\* is missing); for a string, empty says whether it is "", direct is the
\* time new Date(value) gives (NoTime for Invalid Date) and dmy the time of
\* the text read as dd/mm/yyyy[ hh:mm[:ss]] (NoTime when the text does not
\* have that form or names no date).
Fecha(kind, empty, direct, dmy) ==
    [kind |-> kind, empty |-> empty, direct |-> direct, dmy |-> dmy]

parseClosingDate(value) ==
    IF value.kind # "string" \/ value.empty THEN NoTime
    ELSE IF value.direct # NoTime THEN value.direct
    ELSE value.dmy

\* 72 * 60 * 60 * 1000
EnrichWindowMs == 72 * 60 * 60 * 1000

\* An item of payload.resultados.  obj is FALSE for an item that is not an
\* object (null); nombre says whether the nombre field is a string.
Listing(codigo, own, total, fecha, nombre) ==
    [obj |-> TRUE, codigo |-> codigo, misOfertas |-> own, numeroOfertas |-> total,
     fechaCierre |-> fecha, nombre |-> nombre]
NotAListing ==
    [obj |-> FALSE, codigo |-> 0, misOfertas |-> JsUndefined,
     numeroOfertas |-> JsUndefined,
     fechaCierre |-> Fecha("undefined", FALSE, NoTime, NoTime), nombre |-> FALSE]

shouldEnrich(opportunity, nowMs) ==
    IF ~opportunity.obj THEN FALSE
    ELSE LET own == ToNumber(opportunity.misOfertas)
             total == ToNumber(opportunity.numeroOfertas)
             hasNoOffers == (~own.nan /\ own.n = 0) /\ (~total.nan /\ total.n = 0)
             closingDate == parseClosingDate(opportunity.fechaCierre)
         IN  IF ~hasNoOffers THEN FALSE
             ELSE IF closingDate = NoTime THEN FALSE
             ELSE LET deltaMs == closingDate - nowMs
                  IN  deltaMs >= 0 /\ deltaMs <= EnrichWindowMs

\* One evaluation of shouldEnrich
SeRec(pc, o, nowMs, result) ==
    [pc |-> pc, opportunity |-> o, nowMs |-> nowMs, result |-> result]
SeNone == SeRec("none", NotAListing, 0, FALSE)

\* Offer counts a listing may carry: 0, some offers, the field missing, null,
\* and the strings "0", "" and "n/a"
OfferValues ==
    { JsNum(0), JsNum(2), JsUndefined, JsNull,
      JsStr("0", 0), JsStr("", 0), JsStr("nan", 0) }

\* Closing dates a listing may carry, around the clock's start T = Now0 * 1000:
\* missing, null, a number, "", text that is no date, ISO texts at the edges
\* of the 72 h window, a dd/mm/yyyy text that new Date() rejects, one that
\* new Date() reads as mm/dd/yyyy, and one that names no date either way
FechaValues ==
    LET T == Now0 * 1000
    IN  { Fecha("undefined", FALSE, NoTime, NoTime),
          Fecha("null", FALSE, NoTime, NoTime),
          Fecha("number", FALSE, NoTime, NoTime),
          Fecha("string", TRUE, NoTime, NoTime),
          Fecha("string", FALSE, NoTime, NoTime) }
        \cup { Fecha("string", FALSE, t, NoTime) :
                 t \in { T - 1, T, T + 1, T + 3600000, T + EnrichWindowMs - 1,
                         T + EnrichWindowMs, T + EnrichWindowMs + 1 } }
        \cup { Fecha("string", FALSE, NoTime, T + 7200000),
               Fecha("string", FALSE, T + 5 * EnrichWindowMs, T + 7200000) }

EligibilityInputs ==
    {NotAListing} \cup
    { Listing(1, own, total, f, TRUE) :
        own \in OfferValues, total \in {JsNum(0), JsNum(1), JsNull}, f \in FechaValues }

---------------------------------------------------------------------------
(* The enrichment run: enrichSingle, enrichOpportunities                   *)

\* options.concurrency / options.maxRetries when the option is not a usable
\* integer
DefaultConcurrency == 5
DefaultMaxRetries == 3

\* Variant: the concurrency option is taken as given
NormConcurrency_AsGiven(c) == c

\* Number.isInteger(c) && c > 0 ? c : 5.  An option of the model is an
\* integer; 0 and -1 stand for every value the test rejects.
NormConcurrency(c) == IF c > 0 THEN c ELSE DefaultConcurrency
\* Number.isInteger(m) && m >= 0 ? m : 3
NormMaxRetries(m) == IF m >= 0 THEN m ELSE DefaultMaxRetries

\* What the detail endpoint may answer to one GET
DetailOutcomes ==
    { Outcome("response", 200, TRUE), Outcome("response", 200, FALSE),
      Outcome("response", 400, TRUE), Outcome("response", 401, TRUE),
      Outcome("response", 404, TRUE), Outcome("response", 503, TRUE),
      Outcome("timeout", 0, FALSE) }

\* One enrichSingle call.  x is its requestDetailWithRetry executor; fate is
\* "pending" (not started), "running", "record" (returned mapDetail(...)) or
\* the reason it returned null: "nodetail" (no payload.detalleSolicitud),
\* "TokenExpiredError" or "Error" (the name of the error it caught).
\* A settled call keeps no more of its executor than this.
Task(x, fate) == [x |-> x, fate |-> fate]
TaskPending == Task(ExIdle, "pending")
TaskSettled(fate) == Task(ExIdle, fate)
Settled(t) == t.fate \notin {"pending", "running"}

\* enrichSingle up to its first await: the first request is out
enrichSingleBegin(bearerToken, maxRetries) ==
    Task(DetailFetchBegin(bearerToken, maxRetries), "running")

\* The request in flight of an enrichSingle call ends in o; hasDetail says
\* whether a parsed body carries payload.detalleSolicitud.  Every error is
\* caught and makes the call return null.
enrichSingleOnOutcome(t, o, hasDetail) ==
    LET x2 == ExOnOutcome(t.x, o)
    IN  IF x2.pc = "done"
        THEN TaskSettled(IF hasDetail THEN "record" ELSE "nodetail")
        ELSE IF x2.pc = "failed" THEN TaskSettled(x2.err.name)
        ELSE Task([x2 EXCEPT !.outcomes = <<>>, !.sleeps = <<>>], "running")

\* The backoff sleep of an enrichSingle call is over
enrichSingleOnWake(t) ==
    LET x2 == ExOnWake(t.x)
    IN  IF x2.pc = "failed" THEN TaskSettled(x2.err.name)
        ELSE Task(x2, "running")

\* The record mapDetail builds for the listing at position i of the
\* filtered list
mapDetail(opportunity, i) == [codigo |-> opportunity.codigo, from |-> i]

\* pc          "idle", "awaitToken", "window" (awaiting Promise.allSettled),
\*             "done", "failed"
\* input       the opportunities argument: [isArray, items]
\* concurrency, maxRetries   the options after their defaults
\* nowMs       Date.now() of the call
\* filtered    the listings that passed shouldEnrich, in input order
\* bearer      the token every detail request carries
\* start       the loop variable (0-based offset of the current window)
\* tasks       the enrichSingle call of every filtered listing
\* windows     the batches started so far, as sets of positions
\* enriched    the result list
\* err         the error the call rejected with
EnRec(pc, input, c, mr, nowMs, filtered) ==
    [pc |-> pc, input |-> input, concurrency |-> c, maxRetries |-> mr,
     nowMs |-> nowMs, filtered |-> filtered, bearer |-> NoToken, start |-> 0,
     tasks |-> [i \in 1..Len(filtered) |-> TaskPending],
     windows |-> <<>>, enriched |-> <<>>, err |-> ExNoError]

EnInput(isArray, items) == [isArray |-> isArray, items |-> items]
EnIdle == EnRec("idle", EnInput(TRUE, <<>>), 0, 0, 0, <<>>)

\* Variant: a window also takes the last listing of the window before it
BatchAt_Overlapping(e, start) ==
    {i \in 1..Len(e.filtered) : start <= i /\ i <= start + e.concurrency}

\* filtered.slice(start, start + concurrency), as positions
BatchAt(e, start) ==
    {i \in 1..Len(e.filtered) : start < i /\ i <= start + e.concurrency}

\* Variant: every listing from start on is begun, not only the batch
StartWindow_Unbounded(e, start) ==
    [e EXCEPT !.pc = "window",
              !.start = start,
              !.windows = Append(@, BatchAt(e, start)),
              !.tasks = [i \in 1..Len(e.filtered) |->
                            IF i > start
                            THEN enrichSingleBegin(e.bearer, e.maxRetries)
                            ELSE @[i]]]

\* batch.map(enrichSingle): every call of the batch issues its first request
StartWindow(e, start) ==
    [e EXCEPT !.pc = "window",
              !.start = start,
              !.windows = Append(@, BatchAt(e, start)),
              !.tasks = [i \in 1..Len(e.filtered) |->
                            IF i \in BatchAt(e, start)
                            THEN enrichSingleBegin(e.bearer, e.maxRetries)
                            ELSE @[i]]]

\* Variant: the token is asked for before the filtered list is looked at
enrichOpportunitiesBegin_TokenFirst(input, concurrency, maxRetries, t) ==
    LET nowMs == t * 1000
        passes(o) == shouldEnrich(o, nowMs)
        filtered == IF input.isArray THEN SelectSeq(input.items, passes) ELSE <<>>
        e == EnRec("awaitToken", input, NormConcurrency(concurrency),
                   NormMaxRetries(maxRetries), nowMs, filtered)
    IN  IF ~input.isArray \/ Len(input.items) = 0
        THEN [e EXCEPT !.pc = "done"]
        ELSE e

\* enrichOpportunities up to its first await
enrichOpportunitiesBegin(input, concurrency, maxRetries, t) ==
    LET nowMs == t * 1000
        passes(o) == shouldEnrich(o, nowMs)
        filtered == IF input.isArray THEN SelectSeq(input.items, passes) ELSE <<>>
        e == EnRec("awaitToken", input, NormConcurrency(concurrency),
                   NormMaxRetries(maxRetries), nowMs, filtered)
    IN  IF ~input.isArray \/ Len(input.items) = 0 \/ Len(filtered) = 0
        THEN [e EXCEPT !.pc = "done"]
        ELSE e

\* getValidToken() settled: its error rejects the run, else the first
\* window starts
EnrichAfterToken(e, g) ==
    IF g.pc = "failed"
    THEN [e EXCEPT !.pc = "failed", !.err = ExLift(g.err)]
    ELSE StartWindow([e EXCEPT !.bearer = g.token], 0)

RECURSIVE ValuesOf(_, _, _)
\* the non-null values of the positions from..to, in order
ValuesOf(e, from, to) ==
    IF from > to THEN <<>>
    ELSE (IF e.tasks[from].fate = "record"
          THEN <<mapDetail(e.filtered[from], from)>> ELSE <<>>)
         \o ValuesOf(e, from + 1, to)

\* Variant: a window with a null value rejects the run
EnrichAfterWindow_FailsOnNull(e) ==
    LET last == IF e.start + e.concurrency < Len(e.filtered)
                THEN e.start + e.concurrency ELSE Len(e.filtered)
        pushed == [e EXCEPT !.enriched = @ \o ValuesOf(e, e.start + 1, last)]
    IN  IF \E i \in (e.start + 1)..last : e.tasks[i].fate # "record"
        THEN [pushed EXCEPT !.pc = "failed"]
        ELSE IF e.start + e.concurrency < Len(e.filtered)
        THEN StartWindow(pushed, e.start + e.concurrency)
        ELSE [pushed EXCEPT !.pc = "done"]

\* Variant: every window pushes the values of all windows so far
EnrichAfterWindow_Repushing(e) ==
    LET last == IF e.start + e.concurrency < Len(e.filtered)
                THEN e.start + e.concurrency ELSE Len(e.filtered)
        pushed == [e EXCEPT !.enriched = @ \o ValuesOf(e, 1, last)]
    IN  IF e.start + e.concurrency < Len(e.filtered)
        THEN StartWindow(pushed, e.start + e.concurrency)
        ELSE [pushed EXCEPT !.pc = "done"]

\* Variant: the values of a window go in front of those of earlier windows
EnrichAfterWindow_NewestFirst(e) ==
    LET last == IF e.start + e.concurrency < Len(e.filtered)
                THEN e.start + e.concurrency ELSE Len(e.filtered)
        pushed == [e EXCEPT !.enriched = ValuesOf(e, e.start + 1, last) \o @]
    IN  IF e.start + e.concurrency < Len(e.filtered)
        THEN StartWindow(pushed, e.start + e.concurrency)
        ELSE [pushed EXCEPT !.pc = "done"]

\* Promise.allSettled resolved: the window's non-null values are pushed in
\* batch order, then the next window starts or the list is returned
EnrichAfterWindow(e) ==
    LET last == IF e.start + e.concurrency < Len(e.filtered)
                THEN e.start + e.concurrency ELSE Len(e.filtered)
        pushed == [e EXCEPT !.enriched = @ \o ValuesOf(e, e.start + 1, last)]
    IN  IF e.start + e.concurrency < Len(e.filtered)
        THEN StartWindow(pushed, e.start + e.concurrency)
        ELSE [pushed EXCEPT !.pc = "done"]

---------------------------------------------------------------------------
(* The crawl: CompraAgilScraper.scrape                                     *)

\* A parsed page response.  shape is "null" (the body is the JSON null),
\* "nopayload" (no payload field, or a falsy one), "noresultados" (payload
\* without resultados), "object" (resultados is an object that is no list)
\* or "list"; pageCount is payload.pageCount, NoField when it is missing.
PageBody(shape, items, pageCount) ==
    [shape |-> shape, items |-> items, pageCount |-> pageCount]

TypeError == ExErr("TypeError", "", 0, "undefined", FALSE)

\* A result file: "full", "summary" or "enriched", and the records in it
ResultFile(kind, items) == [kind |-> kind, items |-> items]

\* pc         "idle", "awaitToken" (scrape's own ensureToken), "fetching"
\*            (fetchOpportunities pending), "pausing" (the inter-page
\*            delay), "enriching", "done", "failed"
\* maxPages, enrich   the options
\* page       the loop variable
\* fetched    the page numbers fetchOpportunities was called with, in order
\* responses  the parsed page responses received, in order
\* all        allOpportunities
\* pauses     inter-page delays taken
\* serverPages  the pageCount the server reports during this run
\* ended      why the page loop was left: "" (not yet, or by an error),
\*            "nodata", "empty", "lastpage", "maxpages"
\* files      the result files written, in order
\* err        the error scrape rejected with
CrRec(pc, maxPages, enrich, serverPages) ==
    [pc |-> pc, maxPages |-> maxPages, enrich |-> enrich,
     serverPages |-> serverPages, page |-> 0,
     fetched |-> <<>>, responses |-> <<>>, all |-> <<>>, pauses |-> 0,
     ended |-> "", files |-> <<>>, err |-> ExNoError]

CrIdle == CrRec("idle", 0, FALSE, NoField)

\* scrape(options) up to its first await
scrapeBegin(maxPages, enrich, serverPages) ==
    CrRec("awaitToken", maxPages, enrich, serverPages)

\* opp.codigo throws on an item that is no object, and
\* opp.fechaCierre?.substring(0, 10) on a closing date that is neither
\* missing nor a string
ItemThrows(o) == ~o.obj \/ o.fechaCierre.kind = "number"

\* summary.slice(0, 10).forEach(...): opp.nombre.substring throws when
\* nombre is no string
TopTenThrows(all) == \E i \in 1..Len(all) : i <= 10 /\ ~all[i].nombre

\* The end of scrape: the top-10 listing, then return allOpportunities
scrapeFinish(c) ==
    IF TopTenThrows(c.all) THEN [c EXCEPT !.pc = "failed", !.err = TypeError]
    ELSE [c EXCEPT !.pc = "done"]

\* Variant: enrichment is started before the result files are written
scrapeAfterLoop_EnrichFirst(c, reason) ==
    LET left == [c EXCEPT !.ended = reason]
        full == [left EXCEPT !.files = Append(@, ResultFile("full", c.all))]
        both == [full EXCEPT !.files = Append(@, ResultFile("summary", c.all))]
    IN  IF \E i \in 1..Len(c.all) : ItemThrows(c.all[i])
        THEN [full EXCEPT !.pc = "failed", !.err = TypeError]
        ELSE IF c.enrich THEN [left EXCEPT !.pc = "enriching"]
        ELSE scrapeFinish(both)

\* The page loop was left for the given reason: the full file is written,
\* then the summary (unless building it throws), then enrichOpportunities
\* is awaited or the run finishes
scrapeAfterLoop(c, reason) ==
    LET left == [c EXCEPT !.ended = reason]
        full == [left EXCEPT !.files = Append(@, ResultFile("full", c.all))]
        both == [full EXCEPT !.files = Append(@, ResultFile("summary", c.all))]
    IN  IF \E i \in 1..Len(c.all) : ItemThrows(c.all[i])
        THEN [full EXCEPT !.pc = "failed", !.err = TypeError]
        ELSE IF c.enrich THEN [both EXCEPT !.pc = "enriching"]
        ELSE scrapeFinish(both)

\* The loop test and body up to the await: fetchOpportunities({page})
scrapeLoop(c, page) ==
    IF page <= c.maxPages
    THEN [c EXCEPT !.pc = "fetching", !.page = page, !.fetched = Append(@, page)]
    ELSE scrapeAfterLoop([c EXCEPT !.page = page], "maxpages")

\* scrape's ensureToken() settled
scrapeAfterToken(c, g) ==
    IF g.pc = "failed"
    THEN [c EXCEPT !.pc = "failed", !.err = ExLift(g.err)]
    ELSE scrapeLoop(c, 1)

\* Variant: the page after the server's last one is the last
IsLastPage_OnePastCount(page, pageCount) == pageCount # NoField /\ page > pageCount

\* page >= response.payload.pageCount; a comparison with undefined is false
IsLastPage(page, pageCount) == pageCount # NoField /\ page >= pageCount

\* Variant: an empty page is not taken as the end
IsEmptyPage_Never(opportunities) == FALSE

\* opportunities.length === 0
IsEmptyPage(opportunities) == Len(opportunities) = 0

\* Variant: the newest page goes first
Accumulate_Prepending(allOpportunities, opportunities) ==
    opportunities \o allOpportunities

\* allOpportunities.push(...opportunities)
Accumulate(allOpportunities, opportunities) == allOpportunities \o opportunities

\* Variant: the next page is asked for without the inter-page delay
scrapeOnPage_NoPause(c, body) ==
    LET seen == [c EXCEPT !.responses = Append(@, body)]
        pushed == [seen EXCEPT !.all = Accumulate(@, body.items)]
    IN  IF body.shape = "null" THEN [seen EXCEPT !.pc = "failed", !.err = TypeError]
        ELSE IF body.shape \in {"nopayload", "noresultados"}
        THEN scrapeAfterLoop(seen, "nodata")
        ELSE IF body.shape = "object"
        THEN [seen EXCEPT !.pc = "failed", !.err = TypeError]
        ELSE IF IsEmptyPage(body.items) THEN scrapeAfterLoop(seen, "empty")
        ELSE IF /\ c.page = 1
                /\ Len(body.items) > 0
                /\ (ItemThrows(body.items[1]) \/ ~body.items[1].nombre)
        THEN [pushed EXCEPT !.pc = "failed", !.err = TypeError]
        ELSE IF IsLastPage(c.page, body.pageCount)
        THEN scrapeAfterLoop(pushed, "lastpage")
        ELSE scrapeLoop(pushed, c.page + 1)

\* fetchOpportunities resolved with the parsed body
scrapeOnPage(c, body) ==
    LET seen == [c EXCEPT !.responses = Append(@, body)]
        pushed == [seen EXCEPT !.all = Accumulate(@, body.items)]
    IN  IF body.shape = "null" THEN [seen EXCEPT !.pc = "failed", !.err = TypeError]
        ELSE IF body.shape \in {"nopayload", "noresultados"}
        THEN scrapeAfterLoop(seen, "nodata")
        ELSE IF body.shape = "object"
        THEN [seen EXCEPT !.pc = "failed", !.err = TypeError]
        ELSE IF IsEmptyPage(body.items) THEN scrapeAfterLoop(seen, "empty")
        ELSE IF /\ c.page = 1
                /\ Len(body.items) > 0
                /\ (ItemThrows(body.items[1]) \/ ~body.items[1].nombre)
        THEN [pushed EXCEPT !.pc = "failed", !.err = TypeError]
        ELSE IF IsLastPage(c.page, body.pageCount)
        THEN scrapeAfterLoop(pushed, "lastpage")
        ELSE [pushed EXCEPT !.pc = "pausing", !.pauses = @ + 1]

\* Variant: the error is swallowed and the pages fetched so far are kept
scrapeOnPageError_KeepsPartial(c, err) == scrapeAfterLoop(c, "nodata")

\* fetchOpportunities rejected: the catch block rethrows
scrapeOnPageError(c, err) == [c EXCEPT !.pc = "failed", !.err = err]

\* enrichOpportunities settled
scrapeAfterEnrich(c, e) ==
    IF e.pc = "failed" THEN [c EXCEPT !.pc = "failed", !.err = e.err]
    ELSE IF Len(e.enriched) = 0 THEN scrapeFinish(c)
    ELSE scrapeFinish([c EXCEPT !.files = Append(@, ResultFile("enriched", e.enriched))])

---------------------------------------------------------------------------
(* The command line of the crawl: scraper-final.js run as the main module  *)

\* options.maxPages without a --pages argument
DefaultMaxPages == 10
\* the largest --pages value the command line accepts
PagesLimit == 50
\* options.daysBack without a --days argument, and the largest accepted
DefaultDaysBack == 7
DaysLimit == 90

\* A --pages=<text> or --days=<text> argument: given says whether it is on
\* the command line, digits whether the text matches /^\d+$/, value is
\* Number(text) for such a text
NumArg(given, digits, value) == [given |-> given, digits |-> digits, value |-> value]
NoArg == NumArg(FALSE, FALSE, 0)

\* /^\d+$/.test(raw) && Number.isInteger(value) && value >= 1 && value <= limit
IsValidArg(a, limit) == a.digits /\ a.value >= 1 /\ a.value <= limit

\* pc       "idle", "running" (scrape pending), "exited"
\* maxPages, daysBack, enrich   the options handed to scrape
\* code     the argument of process.exit, -1 before the process exits
CliRec(pc, maxPages, daysBack, enrich, code) ==
    [pc |-> pc, maxPages |-> maxPages, daysBack |-> daysBack, enrich |-> enrich,
     code |-> code]
CliIdle == CliRec("idle", DefaultMaxPages, DefaultDaysBack, FALSE, -1)

\* The main module up to scraper.scrape(options): a bad --pages or --days
\* ends the process with code 1
CliBegin(pages, days, enrich) ==
    IF pages.given /\ ~IsValidArg(pages, PagesLimit)
    THEN CliRec("exited", DefaultMaxPages, DefaultDaysBack, enrich, 1)
    ELSE IF days.given /\ ~IsValidArg(days, DaysLimit)
    THEN CliRec("exited", IF pages.given THEN pages.value ELSE DefaultMaxPages,
                DefaultDaysBack, enrich, 1)
    ELSE CliRec("running", IF pages.given THEN pages.value ELSE DefaultMaxPages,
                IF days.given THEN days.value ELSE DefaultDaysBack, enrich, -1)

\* Variant: an error that requires manual re-authentication exits like any other
ExitCodeOf_NoReauthCode(c) ==
    IF c.pc = "done" THEN 0 ELSE 1

\* .then(() => process.exit(0)) and the .catch handler: 2 when
\* error.requiresManualReauth === true, else 1
ExitCodeOf(c) ==
    IF c.pc = "done" THEN 0
    ELSE IF c.err.requiresManualReauth THEN 2
    ELSE 1

\* scrape settled as c
CliAfterScrape(l, c) == [l EXCEPT !.pc = "exited", !.code = ExitCodeOf(c)]

---------------------------------------------------------------------------
(* The health check: session-monitor.js                                    *)
(*                                                                         *)
(* hoursLeft values are kept in seconds (hours * 3600), the thresholds in  *)
(* hours as the environment gives them.                                    *)

\* Number(process.env.SESSION_WARN_HOURS || 24), SESSION_CRIT_HOURS || 6
WARN_HOURS == 24
CRIT_HOURS == 6
SecondsPerHour == 3600

\* An environment variable that is not set (or is empty)
NoEnv == -1
EnvHours(env, default) == IF env = NoEnv THEN default ELSE env

\* A hoursLeft value: null, or the remaining time
Hrs(known, secs) == [known |-> known, secs |-> secs]
NoHrs == Hrs(FALSE, 0)

\* {level, code} of an outcome; "none" before there is one
Verdict(level, code) == [level |-> level, code |-> code]
NoVerdict == Verdict("none", -1)

RECURSIVE MinSecs(_)
\* Math.min(...known) of a non-empty list of known values
MinSecs(known) ==
    IF Len(known) = 1 THEN known[1].secs
    ELSE LET m == MinSecs(Tail(known))
         IN  IF known[1].secs < m THEN known[1].secs ELSE m

\* Variant: a signal at exactly the threshold is past it
classify_StrictThresholds(hoursLeftList, warnHours, critHours) ==
    LET isKnown(h) == h.known
        known == SelectSeq(hoursLeftList, isKnown)
    IN  IF Len(known) = 0 THEN Verdict("WARN", 1)
        ELSE LET minSecs == MinSecs(known)
             IN  IF minSecs <= 0 THEN Verdict("CRITICAL", 2)
                 ELSE IF minSecs < critHours * SecondsPerHour THEN Verdict("CRITICAL", 2)
                 ELSE IF minSecs < warnHours * SecondsPerHour THEN Verdict("WARN", 1)
                 ELSE Verdict("OK", 0)

\* Variant: the first known signal decides
classify_FirstKnown(hoursLeftList, warnHours, critHours) ==
    LET isKnown(h) == h.known
        known == SelectSeq(hoursLeftList, isKnown)
    IN  IF Len(known) = 0 THEN Verdict("WARN", 1)
        ELSE LET minSecs == known[1].secs
             IN  IF minSecs <= 0 THEN Verdict("CRITICAL", 2)
                 ELSE IF minSecs <= critHours * SecondsPerHour THEN Verdict("CRITICAL", 2)
                 ELSE IF minSecs <= warnHours * SecondsPerHour THEN Verdict("WARN", 1)
                 ELSE Verdict("OK", 0)

\* Variant: no known signal counts as expired
classify_EmptyIsCritical(hoursLeftList, warnHours, critHours) ==
    LET isKnown(h) == h.known
        known == SelectSeq(hoursLeftList, isKnown)
    IN  IF Len(known) = 0 THEN Verdict("CRITICAL", 2)
        ELSE LET minSecs == MinSecs(known)
             IN  IF minSecs <= 0 THEN Verdict("CRITICAL", 2)
                 ELSE IF minSecs <= critHours * SecondsPerHour THEN Verdict("CRITICAL", 2)
                 ELSE IF minSecs <= warnHours * SecondsPerHour THEN Verdict("WARN", 1)
                 ELSE Verdict("OK", 0)

\* classify(hoursLeftList), with the two thresholds it reads
classify(hoursLeftList, warnHours, critHours) ==
    LET isKnown(h) == h.known
        known == SelectSeq(hoursLeftList, isKnown)
    IN  IF Len(known) = 0 THEN Verdict("WARN", 1)
        ELSE LET minSecs == MinSecs(known)
             IN  IF minSecs <= 0 THEN Verdict("CRITICAL", 2)
                 ELSE IF minSecs <= critHours * SecondsPerHour THEN Verdict("CRITICAL", 2)
                 ELSE IF minSecs <= warnHours * SecondsPerHour THEN Verdict("WARN", 1)
                 ELSE Verdict("OK", 0)

\* Variant: only a 401 counts as a failed probe
probeApi_Only401(bearerToken, o) ==
    IF bearerToken.id = 0 THEN [ok |-> FALSE, status |-> 0]
    ELSE IF o.net # "response" THEN [ok |-> TRUE, status |-> 0]
    ELSE [ok |-> o.status # 401, status |-> o.status]

\* probeApi(bearerToken): what the promise resolves with when the GET ends
\* in o; without a bearer token no request is made
probeApi(bearerToken, o) ==
    IF bearerToken.id = 0 THEN [ok |-> FALSE, status |-> 0]
    ELSE IF o.net # "response" THEN [ok |-> FALSE, status |-> 0]
    ELSE [ok |-> o.status = 200, status |-> o.status]

\* hAccess: inspected.accessToken.secondsRemaining / 3600, or null
AccessHours(inspected) ==
    IF inspected.accessToken.hasRemaining
    THEN Hrs(TRUE, inspected.accessToken.secondsRemaining)
    ELSE NoHrs

\* hIdentity: the exp claim of the KEYCLOAK_IDENTITY cookie's value, when it
\* is positive
IdentityHours(cookies, t) ==
    LET v == ValueAt(cookies, FirstIdx(cookies, "KEYCLOAK_IDENTITY"))
    IN  IF v.id # 0 /\ v.exp > 0 THEN Hrs(TRUE, v.exp - t) ELSE NoHrs

\* hSession: the expires field of the KEYCLOAK_SESSION cookie, when it is
\* positive
SessionHours(cookies, t) ==
    LET x == ExpiresAt(cookies, FirstIdx(cookies, "KEYCLOAK_SESSION"))
    IN  IF x > 0 THEN Hrs(TRUE, x - t) ELSE NoHrs

\* cookies.find(c => c.name === 'access_token_ccr' || c.name === 'access_token'),
\* as an index
ProbeCookieIdx(cookies) ==
    IF \E i \in 1..Len(cookies) : cookies[i].name \in {"access_token_ccr", "access_token"}
    THEN CHOOSE i \in 1..Len(cookies) :
            /\ cookies[i].name \in {"access_token_ccr", "access_token"}
            /\ \A j \in 1..(i - 1) : cookies[j].name \notin {"access_token_ccr", "access_token"}
    ELSE 0

\* pc        "idle", "probing" (awaiting probeApi), "exited"
\* warnHours, critHours, doProbe   WARN_HOURS, CRIT_HOURS, DO_PROBE
\* hAccess, hIdentity, hSession    the three signals
\* classified  whether classify was called; signal is what it returned
\* outcome   the outcome printed and exited with
\* bearer    the value handed to probeApi
\* probe     "none", "ok", "failed"
\* probed    what the probe's GET ended in
\* thrown    the error main rejected with, "" when none
\* code      the process exit code, -1 while the process runs
MonRec(pc, warnHours, critHours, doProbe) ==
    [pc |-> pc, warnHours |-> warnHours, critHours |-> critHours, doProbe |-> doProbe,
     hAccess |-> NoHrs, hIdentity |-> NoHrs, hSession |-> NoHrs,
     classified |-> FALSE, signal |-> NoVerdict, outcome |-> NoVerdict,
     bearer |-> NoToken, probe |-> "none", probed |-> Outcome("none", 0, FALSE),
     thrown |-> "", code |-> -1]
MonIdle == MonRec("idle", WARN_HOURS, CRIT_HOURS, FALSE)

\* process.exit(outcome.code) after the report is printed
monitorExit(m, outcome) ==
    [m EXCEPT !.pc = "exited", !.outcome = outcome, !.code = outcome.code]

\* main rejects with an error nobody handles: no outcome is printed and the
\* process ends with crashCode
monitorCrash(m, name, crashCode) ==
    [m EXCEPT !.pc = "exited", !.thrown = name, !.code = crashCode]

\* main up to its first await, or to the end when there is no probe.
\* JSON.parse accepts the text null, and session.cookies then throws.
monitorBegin(f, t, warnEnv, critEnv, doProbe, crashCode) ==
    LET m == MonRec("idle", EnvHours(warnEnv, WARN_HOURS), EnvHours(critEnv, CRIT_HOURS),
                    doProbe)
        cookies == ReadCookies(f)
        inspected == inspectToken(f, t)
        hA == AccessHours(inspected)
        hI == IdentityHours(cookies, t)
        hS == SessionHours(cookies, t)
        signal == classify(<<hA, hI, hS>>, m.warnHours, m.critHours)
        read == [m EXCEPT !.hAccess = hA, !.hIdentity = hI, !.hSession = hS,
                          !.classified = TRUE, !.signal = signal,
                          !.bearer = ValueAt(cookies, ProbeCookieIdx(cookies))]
    IN  IF f.kind \in {"missing", "notjson"}
        THEN monitorExit(m, Verdict("CRITICAL", 2))
        ELSE IF f.kind = "null" THEN monitorCrash(m, "TypeError", crashCode)
        ELSE IF inspected.pc = "threw" THEN monitorCrash(m, inspected.thrown.name, crashCode)
        ELSE IF doProbe THEN [read EXCEPT !.pc = "probing"]
        ELSE monitorExit(read, signal)

\* probeApi resolved: a probe that is not ok replaces the outcome
monitorAfterProbe(m, o) ==
    LET probe == probeApi(m.bearer, o)
    IN  IF ~probe.ok
        THEN monitorExit([m EXCEPT !.probe = "failed", !.probed = o],
                         Verdict("CRITICAL", 2))
        ELSE monitorExit([m EXCEPT !.probe = "ok", !.probed = o], m.signal)

---------------------------------------------------------------------------
(* The web server: server.js                                               *)

\* A query parameter as Number.parseInt(String(value), 10) reads it: parsed
\* says whether the text begins with an integer, value is that integer,
\* whole whether the text is nothing but that integer.  A parameter that is
\* not in the query reads as the text undefined: not parsed.
Query(parsed, value, whole) == [parsed |-> parsed, value |-> value, whole |-> whole]
NoQuery == Query(FALSE, 0, FALSE)

\* Variant: the value is not compared with max
toBoundedInt_NoMax(q, defaultValue, min, max) ==
    IF ~q.parsed THEN defaultValue
    ELSE IF q.value < min THEN defaultValue
    ELSE q.value

\* toBoundedInt(value, defaultValue, min, max)
toBoundedInt(q, defaultValue, min, max) ==
    IF ~q.parsed THEN defaultValue
    ELSE IF q.value < min \/ q.value > max THEN defaultValue
    ELSE q.value

\* The answers of /api/scrape/run: the event stream, or Too Many Requests
StreamStatus == 200
BusyStatus == 429

\* isRunInProgress  the guard
\* log              what console.log is: "original" or "patched"
\* pc               "idle", "running" (the handler awaits scraper.scrape)
\* pages, days      the query parameters of the accepted request
\* maxPages, daysBack, enrich   the options handed to scrape
\* streamClosed     the close event of the accepted request was seen
\* ended            res.end() was called for the accepted request
\* sse              the marker written last: "none", "__DONE__", "__ERROR__"
\* answer           the status of the answer to the latest request, 0 at first
WebRec(inProgress, log, pc, pages, days, enrich, answer) ==
    [isRunInProgress |-> inProgress, log |-> log, pc |-> pc,
     pages |-> pages, days |-> days,
     maxPages |-> toBoundedInt(pages, DefaultMaxPages, 1, PagesLimit),
     daysBack |-> toBoundedInt(days, DefaultDaysBack, 1, DaysLimit),
     enrich |-> enrich, streamClosed |-> FALSE, ended |-> FALSE,
     sse |-> "none", answer |-> answer]
WebIdle == WebRec(FALSE, "original", "idle", NoQuery, NoQuery, FALSE, 0)

\* Variant: the guard is not looked at
webRunBegin_Unguarded(w, pages, days, enrich) ==
    WebRec(TRUE, "patched", "running", pages, days, enrich, StreamStatus)

\* The handler of /api/scrape/run up to await scraper.scrape(options): 429
\* while a run is in progress, else the guard is taken, console.log is
\* patched and the options are read from the query
webRunBegin(w, pages, days, enrich) ==
    IF w.isRunInProgress THEN [w EXCEPT !.answer = BusyStatus]
    ELSE WebRec(TRUE, "patched", "running", pages, days, enrich, StreamStatus)

\* sendSse: nothing is written once the stream is closed or ended
sendSse(w, message) ==
    IF w.streamClosed \/ w.ended THEN w ELSE [w EXCEPT !.sse = message]

\* Variant: the guard is released only after a scrape that succeeded
webRunFinally_KeepsGuardOnError(w, c) ==
    LET told == sendSse(w, IF c.pc = "done" THEN "__DONE__" ELSE "__ERROR__")
    IN  [told EXCEPT !.log = "original",
                     !.isRunInProgress = (c.pc # "done"),
                     !.pc = "idle", !.ended = TRUE]

\* scrape settled as c: the try's last statement or the catch, then the
\* finally block
webRunFinally(w, c) ==
    LET told == sendSse(w, IF c.pc = "done" THEN "__DONE__" ELSE "__ERROR__")
    IN  [told EXCEPT !.log = "original", !.isRunInProgress = FALSE,
                     !.pc = "idle", !.ended = TRUE]

---------------------------------------------------------------------------
(* The daily flow: run-daily.sh                                            *)

\* pc           "idle", "monitoring", "scraping", "exited"
\* monitorExit  MONITOR_EXIT, scrapeExit  SCRAPE_EXIT, -1 while not set
\* code         the exit code of the script, -1 while it runs
FlowRec(pc, mExit, sExit, code) ==
    [pc |-> pc, monitorExit |-> mExit, scrapeExit |-> sExit, code |-> code]
FlowIdle == FlowRec("idle", -1, -1, -1)

\* --days=1 of the scraper's command line in run-daily.sh
DailyDays == 1

\* Variant: a warning of the health check also ends the flow
flowAfterMonitor_StopsOnWarning(f, mExit) ==
    IF mExit >= 1 THEN FlowRec("exited", mExit, -1, 2)
    ELSE FlowRec("scraping", mExit, -1, -1)

\* MONITOR_EXIT=$?: exit 2 when it is 2, else the scraper is run.  The
\* alerts are sent with || true and take part in no decision.
flowAfterMonitor(f, mExit) ==
    IF mExit = 2 THEN FlowRec("exited", mExit, -1, 2)
    ELSE FlowRec("scraping", mExit, -1, -1)

\* SCRAPE_EXIT=$?: exit $SCRAPE_EXIT when it is not 0, else exit 0
flowAfterScrape(f, sExit) ==
    IF sExit # 0 THEN FlowRec("exited", f.monitorExit, sExit, sExit)
    ELSE FlowRec("exited", f.monitorExit, sExit, 0)

---------------------------------------------------------------------------
(* Actions of the token manager *)

\* A caller invokes getValidToken(); calls do not overlap.
CallGetValidToken ==
    /\ gvt.pc # "refreshing"
    /\ gvt' = GvtBegin(file, now)
    /\ UNCHANGED <<file, now, insp, ex, cr, en, se, cli, mon, web, flow>>

\* The refresh-grant request settles and getValidToken runs to its end.
RefreshSettles ==
    /\ gvt.pc = "refreshing"
    /\ \E resp \in RefreshResponses :
          /\ gvt' = GvtAfterRefresh(gvt, resp, now)
          /\ file' = FileAfterRefresh(file, gvt, resp, now)
    /\ UNCHANGED <<now, insp, ex, cr, en, se, cli, mon, web, flow>>

\* A caller invokes inspectToken().
CallInspectToken ==
    /\ insp' = inspectToken(file, now)
    /\ UNCHANGED <<file, now, gvt, ex, cr, en, se, cli, mon, web, flow>>

\* Time passes.
Tick ==
    /\ now < Now0 + MaxTicks * TickStep
    /\ now' = now + TickStep
    /\ UNCHANGED <<file, gvt, insp, ex, cr, en, se, cli, mon, web, flow>>

TokenInit ==
    /\ file \in InitialFiles
    /\ now = Now0
    /\ gvt = GvtIdle
    /\ insp = InspNone
    /\ ex = ExIdle
    /\ cr = CrIdle
    /\ en = EnIdle
    /\ se = SeNone
    /\ cli = CliIdle
    /\ mon = MonIdle
    /\ web = WebIdle
    /\ flow = FlowIdle

TokenNext ==
    \/ CallGetValidToken
    \/ RefreshSettles
    \/ Tick

\* getValidToken called again and again by a single caller
SpecToken == TokenInit /\ [][TokenNext]_vars

InspectInit ==
    /\ file \in InspectedFiles
    /\ now = Now0
    /\ gvt = GvtIdle
    /\ insp = InspNone
    /\ ex = ExIdle
    /\ cr = CrIdle
    /\ en = EnIdle
    /\ se = SeNone
    /\ cli = CliIdle
    /\ mon = MonIdle
    /\ web = WebIdle
    /\ flow = FlowIdle

InspectNext ==
    \/ CallInspectToken
    \/ Tick

\* inspectToken called again and again on any credential file
SpecInspect == InspectInit /\ [][InspectNext]_vars

---------------------------------------------------------------------------
(* Actions of the request executors *)

\* Credential files a fetch starts from: a fresh access token; an expiring
\* one with a refresh token; an expiring one without
ExecFiles ==
    { File("object", <<Cookie("access_token_ccr", Tok(1, Now0 + 400), -1),
                       Cookie("refresh_token", Tok(5, Now0 + 5000), -1)>>),
      File("object", <<Cookie("access_token", Tok(2, Now0 + 300), Now0 + 3600),
                       Cookie("refresh_token", Tok(5, Now0 + 5000), -1)>>),
      File("object", <<Cookie("access_token", Tok(2, Now0 + 300), Now0 + 3600)>>) }

\* fetchOpportunities(filters) is called: it awaits ensureToken()
StartPageFetch ==
    /\ ex.pc = "idle"
    /\ gvt.pc # "refreshing"
    /\ ex' = PageFetchBegin
    /\ gvt' = GvtBegin(file, now)
    /\ UNCHANGED <<file, now, insp, cr, en, se, cli, mon, web, flow>>

\* ensureToken() settled
PageTokenSettles ==
    /\ ex.pc = "awaitToken"
    /\ gvt.pc \in {"returned", "failed"}
    /\ ex' = PageFetchAfterToken(ex, gvt)
    /\ UNCHANGED <<file, now, gvt, insp, cr, en, se, cli, mon, web, flow>>

\* requestDetailWithRetry(codigo, bearerToken, timeoutMs, maxRetries) is called
StartDetailFetch ==
    /\ ex.pc = "idle"
    /\ \E mr \in 0..MaxRetriesOpt : ex' = DetailFetchBegin(Tok(1, Now0 + 400), mr)
    /\ UNCHANGED <<file, now, gvt, insp, cr, en, se, cli, mon, web, flow>>

\* The request in flight ends
RequestSettles ==
    /\ ex.pc = "inflight"
    /\ \E o \in HttpOutcomes : ex' = ExOnOutcome(ex, o)
    /\ UNCHANGED <<file, now, gvt, insp, cr, en, se, cli, mon, web, flow>>

\* The backoff timer fires
BackoffElapses ==
    /\ ex.pc = "sleeping"
    /\ ex' = ExOnWake(ex)
    /\ UNCHANGED <<file, now, gvt, insp, cr, en, se, cli, mon, web, flow>>

ExecInit ==
    /\ file \in ExecFiles
    /\ now = Now0
    /\ gvt = GvtIdle
    /\ insp = InspNone
    /\ ex = ExIdle
    /\ cr = CrIdle
    /\ en = EnIdle
    /\ se = SeNone
    /\ cli = CliIdle
    /\ mon = MonIdle
    /\ web = WebIdle
    /\ flow = FlowIdle

ExecNext ==
    \/ StartPageFetch
    \/ RefreshSettles
    \/ PageTokenSettles
    \/ StartDetailFetch
    \/ RequestSettles
    \/ BackoffElapses

\* one page fetch or one detail fetch, from any of the starting files
SpecExec == ExecInit /\ [][ExecNext]_vars

---------------------------------------------------------------------------
(* Actions of the enrichment run *)

\* largest number of listings handed to enrichOpportunities
MaxListings == 4
\* largest concurrency option
MaxConcurrencyOpt == 3
\* largest maxRetries option of an enrichment run
MaxEnrichRetriesOpt == 1

\* A listing closing in an hour: without offers, with offers, and with
\* offers and a nombre that is no string
OpenListing(codigo) ==
    Listing(codigo, JsNum(0), JsNum(0),
            Fecha("string", FALSE, Now0 * 1000 + 3600000, NoTime), TRUE)
OfferedListing(codigo) ==
    Listing(codigo, JsNum(0), JsNum(3),
            Fecha("string", FALSE, Now0 * 1000 + 3600000, NoTime), TRUE)
UnnamedListing(codigo) ==
    Listing(codigo, JsNum(0), JsNum(3),
            Fecha("string", FALSE, Now0 * 1000 + 3600000, NoTime), FALSE)

\* The first k listings of a feed whose second listing has offers and whose
\* codes repeat
FeedPrefix(k) ==
    [i \in 1..k |-> IF i = 2 THEN OfferedListing(2) ELSE OpenListing(1 + (i % 3))]

EnrichInputs ==
    {EnInput(FALSE, <<>>), EnInput(TRUE, <<OfferedListing(2)>>)}
        \cup {EnInput(TRUE, FeedPrefix(k)) : k \in 0..MaxListings}

\* Credential files an enrichment run starts from: a fresh access token,
\* and an expired one without a refresh token
EnrichFiles ==
    { File("object", <<Cookie("access_token_ccr", Tok(1, Now0 + 400), -1)>>),
      File("object", <<Cookie("access_token", Tok(2, Now0 + 300), Now0 + 3600)>>) }

\* enrichOpportunities(opportunities, options) is called
StartEnrich ==
    /\ en.pc = "idle"
    /\ cr.pc = "idle"
    /\ gvt.pc # "refreshing"
    /\ \E input \in EnrichInputs, c \in 0..MaxConcurrencyOpt, mr \in (-1)..MaxEnrichRetriesOpt :
          LET e == enrichOpportunitiesBegin(input, c, mr, now)
          IN  /\ en' = e
              /\ gvt' = IF e.pc = "awaitToken" THEN GvtBegin(file, now) ELSE gvt
    /\ UNCHANGED <<file, now, insp, ex, cr, se, cli, mon, web, flow>>

\* The run's getValidToken() settled
EnrichTokenSettles ==
    /\ en.pc = "awaitToken"
    /\ gvt.pc \in {"returned", "failed"}
    /\ en' = EnrichAfterToken(en, gvt)
    /\ UNCHANGED <<file, now, gvt, insp, ex, cr, se, cli, mon, web, flow>>

\* The request in flight of one enrichSingle call ends
DetailSettles ==
    /\ en.pc = "window"
    /\ \E i \in DOMAIN en.tasks :
          /\ en.tasks[i].x.pc = "inflight"
          /\ \E o \in DetailOutcomes :
                \E hasDetail \in IF requestDetail(o).ok THEN BOOLEAN ELSE {FALSE} :
                   en' = [en EXCEPT !.tasks[i] = enrichSingleOnOutcome(@, o, hasDetail)]
    /\ UNCHANGED <<file, now, gvt, insp, ex, cr, se, cli, mon, web, flow>>

\* The backoff timer of one enrichSingle call fires
DetailBackoffElapses ==
    /\ en.pc = "window"
    /\ \E i \in DOMAIN en.tasks :
          /\ en.tasks[i].x.pc = "sleeping"
          /\ en' = [en EXCEPT !.tasks[i] = enrichSingleOnWake(@)]
    /\ UNCHANGED <<file, now, gvt, insp, ex, cr, se, cli, mon, web, flow>>

\* Variant: the window is over as soon as one of its calls has settled
WindowSettles_OnFirstSettled ==
    /\ en.pc = "window"
    /\ \E i \in BatchAt(en, en.start) : Settled(en.tasks[i])
    /\ en' = EnrichAfterWindow(en)
    /\ UNCHANGED <<file, now, gvt, insp, ex, cr, se, cli, mon, web, flow>>

\* Every call of the window has settled: Promise.allSettled resolves
WindowSettles ==
    /\ en.pc = "window"
    /\ \A i \in BatchAt(en, en.start) : Settled(en.tasks[i])
    /\ en' = EnrichAfterWindow(en)
    /\ UNCHANGED <<file, now, gvt, insp, ex, cr, se, cli, mon, web, flow>>

EnrichInit ==
    /\ file \in EnrichFiles
    /\ now = Now0
    /\ gvt = GvtIdle
    /\ insp = InspNone
    /\ ex = ExIdle
    /\ cr = CrIdle
    /\ en = EnIdle
    /\ se = SeNone
    /\ cli = CliIdle
    /\ mon = MonIdle
    /\ web = WebIdle
    /\ flow = FlowIdle

EnrichNext ==
    \/ StartEnrich
    \/ EnrichTokenSettles
    \/ DetailSettles
    \/ DetailBackoffElapses
    \/ WindowSettles

\* one enrichOpportunities run on any input and options
SpecEnrich == EnrichInit /\ [][EnrichNext]_vars

---------------------------------------------------------------------------
(* Actions of the crawl *)

\* largest maxPages option
MaxPagesOpt == 3

\* Item lists a page may carry: none, two listings of which the first has
\* offers, one listing with offers, one listing whose nombre is no string
PageItemLists ==
    { <<>>, <<OfferedListing(2), OpenListing(1)>>, <<OfferedListing(3)>>,
      <<UnnamedListing(4)>> }

\* payload.pageCount values: missing, two pages, more pages than any crawl
\* may ask for
PageCounts == {NoField, 2, MaxPagesOpt + 1}

PageBodies ==
    { PageBody("null", <<>>, NoField), PageBody("nopayload", <<>>, NoField),
      PageBody("noresultados", <<>>, NoField) }
    \cup { PageBody("object", <<>>, pageCount) : pageCount \in PageCounts }
    \cup { PageBody("list", items, pageCount) :
             items \in PageItemLists, pageCount \in PageCounts }

\* Credential files a crawl starts from: a fresh access token, and an
\* expired one without a refresh token
CrawlFiles ==
    { File("object", <<Cookie("access_token_ccr", Tok(1, Now0 + 400), -1),
                       Cookie("refresh_token", Tok(5, Now0 + 5000), -1)>>),
      File("object", <<Cookie("access_token", Tok(2, Now0 + 300), Now0 + 3600)>>) }

\* scrape continues as c2: a fetchOpportunities call begins with its
\* ensureToken(), an enrichOpportunities call begins with its filter and,
\* if a listing passed, its getValidToken()
ScrapeContinues(c2) ==
    LET e2 == IF c2.pc = "enriching"
              THEN enrichOpportunitiesBegin(EnInput(TRUE, c2.all), 0, -1, now)
              ELSE en
    IN  /\ cr' = c2
        /\ ex' = IF c2.pc = "fetching" THEN PageFetchBegin ELSE ExIdle
        /\ en' = e2
        /\ gvt' = IF c2.pc = "fetching" \/ (c2.pc = "enriching" /\ e2.pc = "awaitToken")
                  THEN GvtBegin(file, now) ELSE gvt
        /\ UNCHANGED <<file, now, insp, se, cli, mon, web, flow>>

\* scrape(options) is called
StartScrape ==
    /\ cr.pc = "idle"
    /\ en.pc = "idle"
    /\ gvt.pc # "refreshing"
    /\ \E maxPages \in 1..MaxPagesOpt, enrich \in BOOLEAN, pageCount \in PageCounts :
          cr' = scrapeBegin(maxPages, enrich, pageCount)
    /\ gvt' = GvtBegin(file, now)
    /\ UNCHANGED <<file, now, insp, ex, en, se, cli, mon, web, flow>>

\* Variant: scrape goes on without awaiting its ensureToken()
ScrapeTokenSettles_NotAwaited ==
    /\ cr.pc = "awaitToken"
    /\ ScrapeContinues(scrapeAfterToken(cr, gvt))

\* scrape's own ensureToken() settled
ScrapeTokenSettles ==
    /\ cr.pc = "awaitToken"
    /\ gvt.pc \in {"returned", "failed"}
    /\ ScrapeContinues(scrapeAfterToken(cr, gvt))

\* fetchOpportunities resolved with a parsed body
PageResolves ==
    /\ cr.pc = "fetching"
    /\ ex.pc = "done"
    /\ \E body \in PageBodies :
          /\ body.shape \in {"object", "list"} => body.pageCount = cr.serverPages
          /\ ScrapeContinues(scrapeOnPage(cr, body))

\* fetchOpportunities rejected
PageRejects ==
    /\ cr.pc = "fetching"
    /\ ex.pc = "failed"
    /\ ScrapeContinues(scrapeOnPageError(cr, ex.err))

\* The inter-page delay is over
PauseElapses ==
    /\ cr.pc = "pausing"
    /\ ScrapeContinues(scrapeLoop(cr, cr.page + 1))

\* enrichOpportunities settled
EnrichmentSettles ==
    /\ cr.pc = "enriching"
    /\ en.pc \in {"done", "failed"}
    /\ cr' = scrapeAfterEnrich(cr, en)
    /\ UNCHANGED <<file, now, gvt, insp, ex, en, se, cli, mon, web, flow>>

CrawlInit ==
    /\ file \in CrawlFiles
    /\ now = Now0
    /\ gvt = GvtIdle
    /\ insp = InspNone
    /\ ex = ExIdle
    /\ cr = CrIdle
    /\ en = EnIdle
    /\ se = SeNone
    /\ cli = CliIdle
    /\ mon = MonIdle
    /\ web = WebIdle
    /\ flow = FlowIdle

CrawlNext ==
    \/ StartScrape
    \/ ScrapeTokenSettles
    \/ PageTokenSettles
    \/ RequestSettles
    \/ BackoffElapses
    \/ PageResolves
    \/ PageRejects
    \/ PauseElapses
    \/ EnrichTokenSettles
    \/ DetailSettles
    \/ DetailBackoffElapses
    \/ WindowSettles
    \/ EnrichmentSettles

\* one scrape run with any options, with or without enrichment
SpecCrawl == CrawlInit /\ [][CrawlNext]_vars

---------------------------------------------------------------------------
(* Actions of the command line of the crawl *)

\* largest valid --pages value
MaxCliPages == 1

\* --pages arguments: 0, the valid values, one past the limit, and a text
\* that is no run of digits
CliPagesArgs ==
    {NumArg(TRUE, TRUE, k) : k \in 0..MaxCliPages}
    \cup {NumArg(TRUE, TRUE, PagesLimit + 1), NumArg(TRUE, FALSE, 0)}

\* --days arguments: none, and 0
CliDaysArgs == {NoArg, NumArg(TRUE, TRUE, 0)}

\* node scraper-final.js [--enrich] --pages=... [--days=...]
StartCli ==
    /\ cli.pc = "idle"
    /\ cr.pc = "idle"
    /\ \E pages \in CliPagesArgs, days \in CliDaysArgs, enrich \in BOOLEAN,
          pageCount \in PageCounts :
          LET l == CliBegin(pages, days, enrich)
          IN  /\ cli' = l
              /\ cr' = IF l.pc = "running"
                       THEN scrapeBegin(l.maxPages, l.enrich, pageCount) ELSE cr
              /\ gvt' = IF l.pc = "running" THEN GvtBegin(file, now) ELSE gvt
    /\ UNCHANGED <<file, now, insp, ex, en, se, mon, web, flow>>

\* scrape settled: the .then or the .catch handler ends the process
CliExits ==
    /\ cli.pc = "running"
    /\ cr.pc \in {"done", "failed"}
    /\ cli' = CliAfterScrape(cli, cr)
    /\ UNCHANGED <<file, now, gvt, insp, ex, cr, en, se, mon, web, flow>>

CliInit ==
    /\ file \in ExecFiles
    /\ now = Now0
    /\ gvt = GvtIdle
    /\ insp = InspNone
    /\ ex = ExIdle
    /\ cr = CrIdle
    /\ en = EnIdle
    /\ se = SeNone
    /\ cli = CliIdle
    /\ mon = MonIdle
    /\ web = WebIdle
    /\ flow = FlowIdle

CliNext ==
    \/ StartCli
    \/ RefreshSettles
    \/ ScrapeTokenSettles
    \/ PageTokenSettles
    \/ RequestSettles
    \/ BackoffElapses
    \/ PageResolves
    \/ PageRejects
    \/ PauseElapses
    \/ EnrichTokenSettles
    \/ DetailSettles
    \/ DetailBackoffElapses
    \/ WindowSettles
    \/ EnrichmentSettles
    \/ CliExits

\* one run of the command line: crawl, optional enrichment, exit
SpecCli == CliInit /\ [][CliNext]_vars

---------------------------------------------------------------------------
(* Actions of the health check *)

\* Remaining times of a signal, in seconds: expired, at zero, and around
\* the thresholds of 5, 6, 10, 24 and 48 hours
SignalSecs ==
    { -600, 0, 5 * 3600, 6 * 3600, 6 * 3600 + 1, 10 * 3600, 24 * 3600,
      24 * 3600 + 1, 48 * 3600 }

\* The access token record: a JWT with an exp claim, an opaque value, an
\* empty value, a JWT whose exp lies beyond the ECMAScript time range
MonitorAccessCookies ==
    {<<Cookie("access_token", Tok(1, Now0 + s), -1)>> : s \in SignalSecs}
    \cup { <<>>, <<Cookie("access_token", Tok(4, 0), -1)>>,
           <<Cookie("access_token_ccr", NoToken, -1)>>,
           <<Cookie("access_token", Tok(8, HugeEpoch), -1)>> }

\* The identity record: a JWT with an exp claim, or an opaque value
MonitorIdentityCookies ==
    {<<Cookie("KEYCLOAK_IDENTITY", Tok(7, Now0 + s), -1)>> : s \in SignalSecs}
    \cup { <<>>, <<Cookie("KEYCLOAK_IDENTITY", Tok(7, 0), -1)>> }

\* The session record: with an expiry, or a session cookie (expires -1)
MonitorSessionCookies ==
    {<<Cookie("KEYCLOAK_SESSION", Tok(6, 0), Now0 + s)>> : s \in SignalSecs}
    \cup { <<>>, <<Cookie("KEYCLOAK_SESSION", Tok(6, 0), -1)>> }

MonitorFiles ==
    {File(k, <<>>) : k \in FileKinds \ {"object"}} \cup
    {File("object", a \o i \o s) :
        a \in MonitorAccessCookies, i \in MonitorIdentityCookies,
        s \in MonitorSessionCookies}

\* SESSION_WARN_HOURS and SESSION_CRIT_HOURS: not set, or a numeral
WarnEnvs == {NoEnv, 10}
CritEnvs == {NoEnv, 5, 48}

\* The exit code of a process whose main rejected: 1 where an unhandled
\* rejection ends the process, 0 where it is only warned about
CrashCodes == {0, 1}

\* What the probe's GET may end in
ProbeOutcomes ==
    { Outcome("response", 200, TRUE), Outcome("response", 200, FALSE),
      Outcome("response", 401, TRUE), Outcome("response", 503, TRUE),
      Outcome("timeout", 0, FALSE), Outcome("error", 0, FALSE) }

\* node session-monitor.js [--probe]
RunMonitor ==
    /\ mon.pc = "idle"
    /\ \E warnEnv \in WarnEnvs, critEnv \in CritEnvs, doProbe \in BOOLEAN,
          crashCode \in CrashCodes :
          mon' = monitorBegin(file, now, warnEnv, critEnv, doProbe, crashCode)
    /\ UNCHANGED <<file, now, gvt, insp, ex, cr, en, se, cli, web, flow>>

\* probeApi resolved
ProbeSettles ==
    /\ mon.pc = "probing"
    /\ \E o \in ProbeOutcomes : mon' = monitorAfterProbe(mon, o)
    /\ UNCHANGED <<file, now, gvt, insp, ex, cr, en, se, cli, web, flow>>

MonitorInit ==
    /\ file \in MonitorFiles
    /\ now = Now0
    /\ gvt = GvtIdle
    /\ insp = InspNone
    /\ ex = ExIdle
    /\ cr = CrIdle
    /\ en = EnIdle
    /\ se = SeNone
    /\ cli = CliIdle
    /\ mon = MonIdle
    /\ web = WebIdle
    /\ flow = FlowIdle

MonitorNext ==
    \/ RunMonitor
    \/ ProbeSettles

\* one run of the health check on any credential file
SpecMonitor == MonitorInit /\ [][MonitorNext]_vars

---------------------------------------------------------------------------
(* Evaluations of shouldEnrich *)

\* shouldEnrich(opportunity, nowMs) is called
CallShouldEnrich ==
    /\ \E o \in EligibilityInputs :
          se' = SeRec("returned", o, now * 1000, shouldEnrich(o, now * 1000))
    /\ UNCHANGED <<file, now, gvt, insp, ex, cr, en, cli, mon, web, flow>>

EligibleInit ==
    /\ file \in EnrichFiles
    /\ now = Now0
    /\ gvt = GvtIdle
    /\ insp = InspNone
    /\ ex = ExIdle
    /\ cr = CrIdle
    /\ en = EnIdle
    /\ se = SeNone
    /\ cli = CliIdle
    /\ mon = MonIdle
    /\ web = WebIdle
    /\ flow = FlowIdle

EligibleNext ==
    \/ CallShouldEnrich
    \/ Tick

\* shouldEnrich called again and again on any listing
SpecEligible == EligibleInit /\ [][EligibleNext]_vars

---------------------------------------------------------------------------
(* Vocabulary of the properties *)
(*                                                                         *)
(* "The record called n" is the record a lookup by name yields: the first  *)
(* record of that name in the bundle.                                      *)

IndicesNamed(cs, n) == {i \in 1..Len(cs) : cs[i].name = n}
LeastOf(S) == CHOOSE i \in S : \A j \in S : i <= j
Named(cs, n) == IF IndicesNamed(cs, n) = {} THEN 0 ELSE LeastOf(IndicesNamed(cs, n))

\* The access-token record: access_token_ccr, else access_token
SelectedAccess(cs) ==
    IF Named(cs, "access_token_ccr") # 0 THEN Named(cs, "access_token_ccr")
    ELSE Named(cs, "access_token")

\* The expiry of a token record: the token's own exp claim when it has one,
\* else the record's expiry attribute when that is a positive time
ExpiryKnown(c) == (c.value.id # 0 /\ c.value.exp # 0) \/ c.expires > 0
ExpiryOf(c) == IF c.value.id # 0 /\ c.value.exp # 0 THEN c.value.exp ELSE c.expires

\* The bundle holds an access token with more than 300 s left at time t
UsableAt(cs, t) ==
    /\ SelectedAccess(cs) # 0
    /\ cs[SelectedAccess(cs)].value.id # 0
    /\ ExpiryKnown(cs[SelectedAccess(cs)])
    /\ ExpiryOf(cs[SelectedAccess(cs)]) - t > 300

\* The bundle holds a refresh-token record with a non-empty value
RefreshPresent(cs) ==
    /\ Named(cs, "refresh_token") # 0
    /\ cs[Named(cs, "refresh_token")].value.id # 0

BundleOf(f) == IF f.kind = "object" THEN f.cookies ELSE <<>>
BundleAtCall == BundleOf(gvt.fileAtCall)
Called == gvt.pc # "idle"

\* The token endpoint answered, and not with a 200 carrying an access token
RefreshRefused(resp) ==
    /\ resp.net = "response"
    /\ (resp.status # 200 \/ ~resp.parseable \/ resp.access.id = 0)

---------------------------------------------------------------------------
(* Properties of getValidToken, checked under SpecToken *)

\* C1: when the selected access token of the bundle has more than 300 s of
\* validity left, getValidToken returns that stored token, issues no refresh
\* request and does not rewrite the credential file.
C1_ValidStoredTokenReturned ==
    (Called /\ UsableAt(BundleAtCall, gvt.callAt)) =>
        /\ gvt.pc = "returned"
        /\ gvt.token = BundleAtCall[SelectedAccess(BundleAtCall)].value
        /\ gvt.refreshes = 0
        /\ gvt.writes = 0
        /\ file = gvt.fileAtCall

\* a call that found a usable token dated only by its record's expiry
C1_Witness ==
    /\ gvt.pc = "returned"
    /\ UsableAt(BundleAtCall, gvt.callAt)
    /\ gvt.token.exp = 0
    /\ RefreshPresent(BundleAtCall)

\* C2: every access token getValidToken returns has more than 300 s of
\* validity left at the moment it is returned, whatever the token endpoint
\* answered.  (A returned token whose expiry cannot be determined is not
\* held against the property here.)
C2_ReturnedTokenHasMinValidity ==
    (gvt.pc = "returned" /\ gvt.tokenExp # 0) =>
        gvt.tokenExp - gvt.retAt > 300

\* C3: one call issues at most one refresh-grant request; exactly one when
\* the access token is not usable and a refresh token is present; a refused
\* or failed refresh ends the call without a second request.
C3_AtMostOneRefresh ==
    /\ gvt.refreshes <= 1
    /\ (Called /\ ~UsableAt(BundleAtCall, gvt.callAt) /\ RefreshPresent(BundleAtCall))
          => gvt.refreshes = 1
    /\ (gvt.resp # NoResp /\ (gvt.resp.net # "response" \/ RefreshRefused(gvt.resp)))
          => (gvt.pc = "failed" /\ gvt.refreshes = 1)

\* a call whose single refresh request failed
C3_Witness ==
    /\ gvt.pc = "failed"
    /\ gvt.refreshes = 1
    /\ gvt.resp.net = "response"
    /\ gvt.resp.status = 500

\* C4: when the access token is not usable and the bundle has no refresh-token
\* record with a non-empty value, getValidToken fails with an error that
\* requires manual re-authentication, without any request and without
\* touching the credential file.
C4_NoRefreshTokenFails ==
    (Called /\ ~UsableAt(BundleAtCall, gvt.callAt) /\ ~RefreshPresent(BundleAtCall)) =>
        /\ gvt.pc = "failed"
        /\ gvt.err.name = "TokenExpiredError"
        /\ gvt.err.requiresManualReauth
        /\ gvt.token = NoToken
        /\ gvt.refreshes = 0
        /\ gvt.writes = 0
        /\ file = gvt.fileAtCall

\* an expiring access token beside a refresh-token record whose value is empty
C4_Witness ==
    /\ gvt.pc = "failed"
    /\ SelectedAccess(BundleAtCall) # 0
    /\ BundleAtCall[SelectedAccess(BundleAtCall)].value.id # 0
    /\ Named(BundleAtCall, "refresh_token") # 0
    /\ ~RefreshPresent(BundleAtCall)

\* C5: when the token endpoint answers with a non-200 status, an unparseable
\* body or a body without access_token, getValidToken fails with an error
\* that requires manual re-authentication, returns no token and leaves the
\* credential file as it was.
C5_RefusedRefreshFails ==
    (gvt.resp # NoResp /\ RefreshRefused(gvt.resp)) =>
        /\ gvt.pc = "failed"
        /\ gvt.err.name = "TokenRefreshError"
        /\ gvt.err.requiresManualReauth
        /\ gvt.token = NoToken
        /\ gvt.writes = 0
        /\ file = gvt.fileAtCall

\* a non-200 answer whose body nevertheless carries an access token
C5_Witness ==
    /\ gvt.pc = "failed"
    /\ gvt.resp.net = "response"
    /\ gvt.resp.status # 200
    /\ gvt.resp.access.id # 0

\* C6: on a successful refresh the whole bundle is on disk when the token
\* is returned: both access-token records hold the new access token, the
\* refresh-token record holds the server's new refresh token if one came
\* and the prior value otherwise, and every other record is as it was.
C6_RefreshPersistedBeforeReturn ==
    (gvt.pc = "returned" /\ gvt.refreshes = 1) =>
        LET old == BundleAtCall
            new == BundleOf(file)
            touched == {Named(new, "access_token_ccr"), Named(new, "access_token"),
                        Named(new, "refresh_token")}
        IN  /\ gvt.writes = 1
            /\ file.kind = "object"
            /\ gvt.token = gvt.resp.access
            /\ Named(new, "access_token_ccr") # 0
            /\ new[Named(new, "access_token_ccr")].value = gvt.resp.access
            /\ Named(new, "access_token") # 0
            /\ new[Named(new, "access_token")].value = gvt.resp.access
            /\ Named(new, "refresh_token") # 0
            /\ new[Named(new, "refresh_token")].value =
                  IF gvt.resp.refresh.id # 0 THEN gvt.resp.refresh
                  ELSE old[Named(old, "refresh_token")].value
            /\ Len(new) >= Len(old)
            /\ \A i \in 1..Len(old) :
                  /\ new[i].name = old[i].name
                  /\ i \notin touched => new[i] = old[i]

\* a refresh without a rotated refresh token, on a bundle that held only one
\* of the two access-token records and a record that is no token
C6_Witness ==
    /\ gvt.pc = "returned"
    /\ gvt.refreshes = 1
    /\ gvt.resp.refresh.id = 0
    /\ Named(BundleAtCall, "access_token_ccr") = 0
    /\ Named(BundleAtCall, "access_token") # 0
    /\ Named(BundleAtCall, "KEYCLOAK_SESSION") # 0

---------------------------------------------------------------------------
(* Properties of inspectToken, checked under SpecInspect *)

\* C7: inspectToken never throws, never issues a refresh request and never
\* modifies the credential file, whatever the file holds; on an unreadable
\* or invalid file the state it returns has a non-null error field.
C7_InspectNeverThrows ==
    insp.pc # "none" =>
        /\ insp.pc = "returned"
        /\ gvt.refreshes = 0
        /\ (file.kind \in {"missing", "notjson"} => insp.error)

---------------------------------------------------------------------------
(* Properties of the request executors, checked under SpecExec *)

\* A 5xx status, the request timeout or a connection error
Transient(o) ==
    \/ o.net \in {"timeout", "error"}
    \/ (o.net = "response" /\ o.status >= 500 /\ o.status <= 599)

\* A 200 with a parseable body
Success(o) == o.net = "response" /\ o.status = 200 /\ o.parseable

\* err is the failure that attempt outcome o produced
FailureOf(o, err) ==
    /\ err.name = "Error"
    /\ IF o.net = "response" THEN err.statusCode = o.status
       ELSE IF o.net = "timeout" THEN err.code = "ETIMEDOUT"
       ELSE err.code = "ECONNRESET"

\* C8: in both executors a failed attempt is followed by another attempt
\* (or by the backoff sleep before it) only if it failed with a 5xx status,
\* a timeout or a connection error; any other failure propagates at once,
\* with no further request, whatever retry budget remains.
C8_OnlyTransientFailuresRetried ==
    LET n == Len(ex.outcomes)
    IN  /\ \A i \in 1..n :
              (ex.requests > i \/ (i = n /\ ex.pc = "sleeping"))
                  => Transient(ex.outcomes[i])
        /\ (n > 0 /\ ~Success(ex.outcomes[n]) /\ ~Transient(ex.outcomes[n]))
              => (ex.pc = "failed" /\ ex.requests = n)

\* a detail fetch with budget left that stopped on a 429 after one retry
C8_Witness ==
    /\ ex.kind = "detail"
    /\ ex.maxRetries = 3
    /\ Len(ex.outcomes) = 2
    /\ ex.outcomes[2].status = 429
    /\ ex.pc = "failed"

\* C9: when the first k attempts fail with retryable failures and attempt
\* k+1 returns a 200 with a parseable body, the executor has made exactly
\* k+1 requests, has slept base*2^0, base*2^1, ..., base*2^(k-1) between
\* them, and returns the payload.
C9_RetriesThenSuccess ==
    LET n == Len(ex.outcomes)
    IN  (n >= 1 /\ Success(ex.outcomes[n]) /\ \A i \in 1..(n - 1) : Transient(ex.outcomes[i]))
            => /\ ex.pc = "done"
               /\ ex.ok
               /\ ex.requests = n
               /\ n - 1 <= ex.maxRetries
               /\ Len(ex.sleeps) = n - 1
               /\ \A i \in 1..(n - 1) : ex.sleeps[i] = 1000 * 2^(i - 1)

\* a page fetch that got 503, 503, 200
C9_Witness ==
    /\ ex.kind = "page"
    /\ ex.pc = "done"
    /\ Len(ex.outcomes) = 3
    /\ ex.outcomes[1].status = 503
    /\ ex.outcomes[2].status = 503
    /\ ex.sleeps = <<1000, 2000>>

\* C10: one request is attempted at most maxRetries + 1 times (3 times for
\* a page fetch); while every attempt fails with a retryable failure the
\* executor goes on until attempt maxRetries + 1, stops there and propagates
\* the failure of that last attempt.
C10_AttemptsBounded ==
    LET n == Len(ex.outcomes)
    IN  /\ ex.requests <= ex.maxRetries + 1
        /\ ex.kind = "page" => ex.requests <= 3
        /\ (n >= 1 /\ \A i \in 1..n : Transient(ex.outcomes[i])) =>
              IF n = ex.maxRetries + 1
              THEN /\ ex.pc = "failed"
                   /\ ex.requests = n
                   /\ FailureOf(ex.outcomes[n], ex.err)
              ELSE ex.pc \in {"sleeping", "inflight"}

\* a detail fetch with maxRetries = 2 that got 503, a timeout and 503
C10_Witness ==
    /\ ex.kind = "detail"
    /\ ex.maxRetries = 2
    /\ ex.pc = "failed"
    /\ ex.requests = 3
    /\ Len(ex.outcomes) = 3
    /\ ex.outcomes[1].status = 503
    /\ ex.outcomes[2].net = "timeout"
    /\ ex.outcomes[3].status = 503

\* A 401 response
Unauthorized(o) == o.net = "response" /\ o.status = 401

\* C11: in both executors a 401 ends the retry loop at once with the
\* authentication-expired error: the attempt that received it is the last
\* request, no backoff sleep follows it, and a 401 on the first attempt
\* leaves the request count at exactly 1 whatever maxRetries is.
C11_UnauthorizedEndsRetries ==
    LET n == Len(ex.outcomes)
    IN  /\ \A i \in 1..n : Unauthorized(ex.outcomes[i]) =>
              /\ i = n
              /\ ex.pc = "failed"
              /\ ex.err.name = "TokenExpiredError"
              /\ ex.err.requiresManualReauth
              /\ ex.requests = n
              /\ Len(ex.sleeps) = n - 1
        /\ (n >= 1 /\ Unauthorized(ex.outcomes[1])) =>
              (ex.requests = 1 /\ ex.sleeps = <<>>)

\* a detail fetch with the largest retry budget whose first attempt got a 401
C11_Witness ==
    /\ ex.kind = "detail"
    /\ ex.maxRetries = MaxRetriesOpt
    /\ ex.pc = "failed"
    /\ ex.outcomes = <<Outcome("response", 401, TRUE)>>
    /\ ex.requests = 1

---------------------------------------------------------------------------
(* Properties of the crawl, checked under SpecCrawl *)

Least(a, b) == IF a <= b THEN a ELSE b
\* <<1, 2, ..., n>>
Pages(n) == [i \in 1..n |-> i]

RECURSIVE ItemsOfFirst(_, _)
\* the items of the first n responses, one page after the other
ItemsOfFirst(responses, n) ==
    IF n = 0 THEN <<>>
    ELSE ItemsOfFirst(responses, n - 1) \o responses[n].items

\* a parsed response with a non-empty list of results
FullPage(b) == b.shape = "list" /\ Len(b.items) > 0
\* a parsed response with an empty list of results
EmptyPage(b) == b.shape = "list" /\ Len(b.items) = 0
\* a parsed response without payload or without payload.resultados
LacksPayload(b) == b.shape \in {"null", "nopayload", "noresultados"}

\* the page loop is over and the full file holds allOpportunities
EndedNormally(reason) ==
    /\ cr.ended = reason
    /\ Len(cr.files) >= 1
    /\ cr.files[1] = ResultFile("full", cr.all)

\* C12: when every page received is a non-empty list and the server reports
\* pageCount = P, the pages requested are 1, 2, ... in order, never more than
\* min(maxPages, P) of them, and exactly 1..min(maxPages, P) once the page
\* loop is over.
C12_PagesUpToServerCount ==
    (/\ cr.serverPages # NoField
     /\ \A i \in 1..Len(cr.responses) :
           FullPage(cr.responses[i]) /\ cr.responses[i].pageCount = cr.serverPages)
    => /\ Len(cr.fetched) <= Least(cr.maxPages, cr.serverPages)
       /\ cr.fetched = Pages(Len(cr.fetched))
       /\ cr.ended # "" => cr.fetched = Pages(Least(cr.maxPages, cr.serverPages))

\* maxPages = 3 and pageCount = 2: the crawl ended after exactly pages 1, 2
C12_Witness ==
    /\ cr.maxPages = 3
    /\ cr.serverPages = 2
    /\ cr.ended = "lastpage"
    /\ cr.fetched = <<1, 2>>
    /\ Len(cr.responses) = 2
    /\ \A i \in 1..2 : FullPage(cr.responses[i])

\* C13: a page with zero items stops the crawl: it is the last page
\* requested whatever pageCount and maxPages allow, the page loop ends
\* normally, and allOpportunities holds the items of the earlier pages.
C13_EmptyPageStops ==
    \A i \in 1..Len(cr.responses) :
        EmptyPage(cr.responses[i]) =>
            /\ i = Len(cr.responses)
            /\ cr.fetched = Pages(i)
            /\ cr.all = ItemsOfFirst(cr.responses, i - 1)
            /\ EndedNormally("empty")

\* page 2 of 3 allowed came back empty although the server reports more
\* pages; the items of page 1 are in the full file
C13_Witness ==
    /\ cr.maxPages = 3
    /\ cr.serverPages > 3
    /\ Len(cr.responses) = 2
    /\ EmptyPage(cr.responses[2])
    /\ cr.fetched = <<1, 2>>
    /\ Len(cr.all) = 2
    /\ EndedNormally("empty")

\* C14: a parsed page response without payload or payload.resultados ends
\* the crawl as a normal end of data: it is the last page requested, no
\* error comes of it, and the run goes on to write the items of the earlier
\* pages.
C14_MissingPayloadEndsData ==
    \A i \in 1..Len(cr.responses) :
        LacksPayload(cr.responses[i]) =>
            /\ i = Len(cr.responses)
            /\ cr.fetched = Pages(i)
            /\ cr.all = ItemsOfFirst(cr.responses, i - 1)
            /\ EndedNormally("nodata")

\* C15: the crawl is sequential: a page request is in flight only while the
\* loop awaits that page, page k+1 is requested only after the response to
\* page k was received, the pages are requested in the order 1, 2, 3, ...,
\* and allOpportunities is the items of the responses, one page after the
\* other, each in the order the server gave.
C15_SequentialCrawl ==
    /\ (ex.pc # "idle") => (cr.pc = "fetching" /\ ex.kind = "page")
    /\ cr.pc = "fetching" => Len(cr.fetched) = Len(cr.responses) + 1
    /\ cr.pc # "fetching" =>
          Len(cr.fetched) \in {Len(cr.responses), Len(cr.responses) + 1}
    /\ cr.fetched = Pages(Len(cr.fetched))
    /\ \A i \in 1..(Len(cr.responses) - 1) : FullPage(cr.responses[i])
    /\ cr.all = ItemsOfFirst(cr.responses, Len(cr.responses))

\* three pages whose listings repeat and are not in code order
C15_Witness ==
    /\ cr.pc = "done"
    /\ cr.fetched = <<1, 2, 3>>
    /\ Len(cr.all) = 5
    /\ cr.all[1].codigo = 2
    /\ cr.all[2].codigo = 1
    /\ cr.all[3].codigo = 3
    /\ cr.all[4].codigo = 2
    /\ cr.all[5].codigo = 1

\* C16: when the fetch of a page fails, scrape rejects with that failure,
\* no later page is requested and no result file is written; result files
\* exist only when the page loop ended by one of its termination conditions.
C16_PageFailureFailsRun ==
    /\ (cr.pc # "fetching" /\ Len(cr.fetched) > Len(cr.responses)) =>
          /\ cr.pc = "failed"
          /\ cr.err.name \in {"TokenExpiredError", "TokenRefreshError", "Error"}
          /\ cr.ended = ""
          /\ cr.files = <<>>
          /\ en.pc = "idle"
    /\ cr.files # <<>> => cr.ended \in {"nodata", "empty", "lastpage", "maxpages"}
    /\ (cr.pc = "failed" /\ cr.ended = "") => cr.files = <<>>

\* page 2 was answered 401 after page 1 had brought listings
C16_Witness ==
    /\ cr.pc = "failed"
    /\ cr.err.name = "TokenExpiredError"
    /\ cr.err.requiresManualReauth
    /\ cr.fetched = <<1, 2>>
    /\ Len(cr.responses) = 1
    /\ Len(cr.all) = 2
    /\ cr.files = <<>>

---------------------------------------------------------------------------
(* Properties of the enrichment run, checked under SpecEnrich *)

\* the positions of the filtered list
Eligible == 1..Len(en.filtered)
\* the detail fetch of position i ended in a 401
AuthExpiredAt(i) == en.tasks[i].fate = "TokenExpiredError"
\* the detail fetch of position i ended in another failure, or in a 200
\* without payload.detalleSolicitud
DroppedAt(i) == en.tasks[i].fate \in {"Error", "nodetail"}

RECURSIVE RecordsUpTo(_)
\* one record for every position up to n whose detail fetch succeeded
RecordsUpTo(n) ==
    IF n = 0 THEN <<>>
    ELSE RecordsUpTo(n - 1) \o
         (IF en.tasks[n].fate = "record"
          THEN <<[codigo |-> en.filtered[n].codigo, from |-> n]>> ELSE <<>>)

\* ceil(n / c) for c > 0
CeilDiv(n, c) == (n + c - 1) \div c

\* C17: once a detail fetch has failed with the authentication-expired
\* error the enrichment run is aborted: no window after the one of that
\* fetch is started and the run does not return a result list.
C17_AuthExpiredAbortsEnrichment ==
    \A k \in 1..Len(en.windows) :
        (\E i \in en.windows[k] : AuthExpiredAt(i)) =>
            /\ k = Len(en.windows)
            /\ en.pc # "done"

\* C18: a detail fetch that fails otherwise drops its listing alone: the
\* run is never rejected because of it, and when the run returns every
\* eligible listing has been attempted and the result holds the record of
\* every listing whose fetch succeeded, in this window and the later ones.
C18_OtherFailuresDropOneItem ==
    (\A i \in Eligible : ~AuthExpiredAt(i)) =>
        /\ en.pc = "failed" =>
              (en.windows = <<>> /\ en.err.name # "Error" /\ en.err.name # "TypeError")
        /\ (en.pc = "window" /\ \E i \in Eligible : DroppedAt(i)) =>
              \A j \in en.windows[Len(en.windows)] : en.tasks[j].fate # "pending"
        /\ (en.pc = "done" /\ Len(en.filtered) > 0) =>
              /\ \A i \in Eligible : Settled(en.tasks[i])
              /\ en.enriched = RecordsUpTo(Len(en.filtered))

\* three eligible listings in windows of two: the first fetch failed, the
\* second found no detail, the third, in the next window, succeeded
C18_Witness ==
    /\ en.pc = "done"
    /\ en.concurrency = 2
    /\ Len(en.filtered) = 3
    /\ en.tasks[1].fate = "Error"
    /\ en.tasks[2].fate = "nodetail"
    /\ en.tasks[3].fate = "record"
    /\ Len(en.enriched) = 1
    /\ en.enriched[1].from = 3

\* C20: with n eligible listings and concurrency c the windows started are,
\* in order, the positions 1..c, c+1..2c, ...: never more than ceil(n/c) of
\* them, each of c listings but the last, which has n - c*(ceil(n/c)-1);
\* when the run returns there are exactly ceil(n/c) windows and every
\* eligible listing was attempted in exactly one of them.
C20_WindowsPartitionEligible ==
    LET n == Len(en.filtered)
        c == en.concurrency
        w == Len(en.windows)
    IN  (n > 0 /\ c > 0) =>
          /\ w <= CeilDiv(n, c)
          /\ \A k \in 1..w :
                /\ en.windows[k] = {i \in 1..n : (k - 1) * c < i /\ i <= k * c}
                /\ Cardinality(en.windows[k]) =
                      IF k < CeilDiv(n, c) THEN c ELSE n - c * (CeilDiv(n, c) - 1)
          /\ \A i \in 1..n :
                (en.tasks[i].fate # "pending") <=> (\E k \in 1..w : i \in en.windows[k])
          /\ en.pc = "done" =>
                /\ w = CeilDiv(n, c)
                /\ \A i \in 1..n :
                      Cardinality({k \in 1..w : i \in en.windows[k]}) = 1

\* three eligible listings with concurrency 2: windows of 2 and 1
C20_Witness ==
    /\ en.pc = "done"
    /\ en.concurrency = 2
    /\ Len(en.filtered) = 3
    /\ en.windows = <<{1, 2}, {3}>>

\* the detail request of position i is out and unanswered
InFlightAt(i) == en.tasks[i].x.pc = "inflight"
\* the call of position i waits in a backoff sleep before its retry
BackingOffAt(i) == en.tasks[i].x.pc = "sleeping"
\* the windows position i was begun in
WindowsOf(i) == {k \in 1..Len(en.windows) : i \in en.windows[k]}

\* C21: no detail request of window k+1, first attempt or retry, is issued
\* before every call of window k has settled, retries and backoff sleeps
\* included: whenever a later window has been started every call of the
\* windows before it has settled, the calls still running all belong to
\* the newest window, and a listing of a window not yet started has issued
\* no request.
C21_NoPipeliningAcrossWindows ==
    /\ \A k \in 1..Len(en.windows) :
          k < Len(en.windows) => \A i \in en.windows[k] : Settled(en.tasks[i])
    /\ \A i \in Eligible :
          /\ (InFlightAt(i) \/ BackingOffAt(i) \/ en.tasks[i].fate = "running")
                => i \in en.windows[Len(en.windows)]
          /\ WindowsOf(i) = {} => en.tasks[i] = TaskPending

\* three eligible listings in windows of two: the second call has settled,
\* the first sleeps before its retry, and the third has not been begun
C21_Witness ==
    /\ en.pc = "window"
    /\ en.concurrency = 2
    /\ Len(en.filtered) = 3
    /\ en.windows = <<{1, 2}>>
    /\ BackingOffAt(1)
    /\ Settled(en.tasks[2])
    /\ en.tasks[3] = TaskPending

\* C22: at every moment of an enrichment run at most concurrency detail
\* requests are in flight, and at most concurrency calls are unsettled,
\* retried ones included.
C22_InFlightAtMostConcurrency ==
    en.pc # "idle" =>
        /\ Cardinality({i \in Eligible : InFlightAt(i)}) <= en.concurrency
        /\ Cardinality({i \in Eligible : en.tasks[i].fate = "running"}) <= en.concurrency

\* concurrency 2 and three eligible listings: two requests are in flight,
\* one of them a retry, while the third listing waits
C22_Witness ==
    /\ en.pc = "window"
    /\ en.concurrency = 2
    /\ Len(en.filtered) = 3
    /\ InFlightAt(1) /\ en.tasks[1].x.attempt = 1
    /\ InFlightAt(2) /\ en.tasks[2].x.attempt = 0
    /\ en.tasks[3] = TaskPending

---------------------------------------------------------------------------
(* Properties of a run of the command line, checked under SpecCli *)

\* this step begins a getValidToken call: scrape's ensureToken, the
\* ensureToken of a page fetch, or the call of enrichOpportunities
StartsTokenCall ==
    \/ cr.pc # "awaitToken" /\ cr'.pc = "awaitToken"
    \/ ex.pc # "awaitToken" /\ ex'.pc = "awaitToken"
    \/ en.pc # "awaitToken" /\ en'.pc = "awaitToken"
\* a getValidToken call has not settled: its refresh-grant request is out
TokenCallPending == gvt.pc = "refreshing"
\* the callers waiting for a getValidToken call
TokenAwaiters ==
    {w \in {"scrape", "page", "enrich"} :
        \/ w = "scrape" /\ cr.pc = "awaitToken"
        \/ w = "page" /\ ex.pc = "awaitToken"
        \/ w = "enrich" /\ en.pc = "awaitToken"}
\* the access token on disk came from a refresh
FileWasRefreshed ==
    \E i \in 1..Len(file.cookies) : file.cookies[i].value \in NewAccessTokens

\* C24: within one run of the pipeline getValidToken calls never overlap:
\* a call begins only when none is pending, at most one caller waits for a
\* token at any time, a pending call has exactly one refresh-grant request
\* out, and session.json is written only by the one pending call when its
\* refresh resolves.
C24_TokenCallsNeverOverlap ==
    /\ [][StartsTokenCall => ~TokenCallPending]_vars
    /\ [][file' # file =>
            /\ TokenCallPending
            /\ gvt'.pc = "returned"
            /\ gvt'.writes = gvt.writes + 1
            /\ Cardinality(TokenAwaiters) = 1]_vars
    /\ [](Cardinality(TokenAwaiters) <= 1)
    /\ [](TokenCallPending => (gvt.refreshes = 1 /\ Cardinality(TokenAwaiters) = 1))

\* the call of enrichOpportunities waits for a refresh although an earlier
\* call of the run has already refreshed the token on disk
C24_Witness ==
    /\ cli.pc = "running"
    /\ cr.pc = "enriching"
    /\ en.pc = "awaitToken"
    /\ TokenCallPending
    /\ FileWasRefreshed
    /\ Len(cr.fetched) = 1

\* the error scrape rejected with is one of the token manager's two
\* re-authentication errors (no usable refresh token or unreadable file,
\* failed refresh, HTTP 401)
FailedNeedingReauth ==
    cr.pc = "failed" /\ cr.err.name \in {"TokenExpiredError", "TokenRefreshError"}

\* C30: the command line exits with 0 exactly when scrape resolved, with 2
\* exactly when it rejected with an error that requires manual
\* re-authentication, and with 1 for every other failure, a rejected
\* argument included.
C30_ExitCodeTellsReauth ==
    /\ cli.pc = "running" => cli.code = -1
    /\ cli.pc = "exited" =>
          /\ cli.code \in {0, 1, 2}
          /\ cli.code = 0 <=> cr.pc = "done"
          /\ cli.code = 2 <=> FailedNeedingReauth
          /\ cli.code = 1 <=> (cr.pc = "idle" \/ (cr.pc = "failed" /\ ~FailedNeedingReauth))
          /\ cr.pc \in {"idle", "done", "failed"}

\* scrape's own token call refreshed the token on disk, the refresh of the
\* page fetch's call then failed: exit code 2
C30_Witness ==
    /\ cli.pc = "exited"
    /\ cli.code = 2
    /\ cr.pc = "failed"
    /\ cr.err.name = "TokenRefreshError"
    /\ cr.fetched = <<1>>
    /\ FileWasRefreshed

---------------------------------------------------------------------------
(* Properties of the health check, checked under SpecMonitor *)

\* the remaining seconds of the signals that were parseable
KnownSecs == {h.secs : h \in {x \in {mon.hAccess, mon.hIdentity, mon.hSession} : x.known}}
\* their minimum
MinKnown == CHOOSE m \in KnownSecs : \A x \in KnownSecs : m <= x
\* the thresholds of the run, in seconds
CritSecs == mon.critHours * 3600
WarnSecs == mon.warnHours * 3600
Hours(h) == h * 3600

\* C25 as stated: for a non-empty set of parseable signals with minimum m
\* the verdict is CRITICAL if m <= 0 or m <= CRIT_HOURS, WARN if
\* CRIT_HOURS < m <= WARN_HOURS and OK if m > WARN_HOURS.
C25_AsStated ==
    (mon.classified /\ KnownSecs # {}) =>
        LET m == MinKnown
        IN  /\ (m <= 0 \/ m <= CritSecs) => mon.signal = Verdict("CRITICAL", 2)
            /\ (CritSecs < m /\ m <= WarnSecs) => mon.signal = Verdict("WARN", 1)
            /\ m > WarnSecs => mon.signal = Verdict("OK", 0)

\* C25: for a non-empty set of parseable signals with minimum m the
\* verdict is CRITICAL if m <= 0 or m <= CRIT_HOURS, otherwise WARN if
\* m <= WARN_HOURS, otherwise OK (so OK needs m above both thresholds);
\* the thresholds are 6 and 24 when the environment sets none, and then 5 h
\* and 6 h give CRITICAL, 10 h and 24 h give WARN, 48 h gives OK.
C25_ThresholdsInOrder ==
    (mon.classified /\ KnownSecs # {}) =>
        LET m == MinKnown
        IN  /\ (m <= 0 \/ m <= CritSecs) => mon.signal = Verdict("CRITICAL", 2)
            /\ (m > 0 /\ CritSecs < m /\ m <= WarnSecs) => mon.signal = Verdict("WARN", 1)
            /\ (m > 0 /\ m > CritSecs /\ m > WarnSecs) => mon.signal = Verdict("OK", 0)
            /\ (mon.critHours = 6 /\ mon.warnHours = 24) =>
                  /\ m \in {Hours(5), Hours(6)} => mon.signal.level = "CRITICAL"
                  /\ m \in {Hours(10), Hours(24)} => mon.signal.level = "WARN"
                  /\ m = Hours(48) => mon.signal.level = "OK"

\* default thresholds, signals of 6 h, 24 h and 48 h: the minimum is at
\* the CRITICAL boundary
C25_Witness ==
    /\ mon.pc = "exited"
    /\ mon.classified
    /\ mon.critHours = 6 /\ mon.warnHours = 24
    /\ mon.hAccess = Hrs(TRUE, Hours(24))
    /\ mon.hIdentity = Hrs(TRUE, Hours(6))
    /\ mon.hSession = Hrs(TRUE, Hours(48))
    /\ mon.signal = Verdict("CRITICAL", 2)

\* the three signals with the unparseable ones among them replaced by s
WithUnknownAs(s) ==
    [i \in 1..3 |->
        LET h == <<mon.hAccess, mon.hIdentity, mon.hSession>>[i]
        IN  IF h.known THEN h ELSE Hrs(TRUE, s)]
\* the three signals with signal i replaced by s
WithSignal(i, s) ==
    [<<mon.hAccess, mon.hIdentity, mon.hSession>> EXCEPT ![i] = Hrs(TRUE, s)]
\* the signals that were not parseable
UnknownSlots == {i \in 1..3 : ~<<mon.hAccess, mon.hIdentity, mon.hSession>>[i].known}

ProbeFailed ==
    /\ mon.doProbe
    /\ mon.pc = "exited"
    /\ mon.classified
    /\ \/ mon.bearer.id = 0
       \/ mon.probed.net # "response"
       \/ mon.probed.status # 200

\* C27: when none of the three signals is parseable the signal-based
\* verdict is WARN, and unless the probe failed the process reports WARN
\* and exits with code 1.
C27_NoSignalIsWarn ==
    (mon.classified /\ KnownSecs = {}) =>
        /\ mon.signal = Verdict("WARN", 1)
        /\ (mon.pc = "exited" /\ ~ProbeFailed) =>
              (mon.outcome = Verdict("WARN", 1) /\ mon.code = 1)

\* an opaque access token, no identity and no session expiry, and a probe
\* that was answered 200
C27_Witness ==
    /\ mon.pc = "exited"
    /\ mon.classified
    /\ KnownSecs = {}
    /\ mon.doProbe
    /\ mon.probe = "ok"
    /\ mon.bearer.id # 0
    /\ mon.code = 1

\* C28: when the probe is enabled and fails (no bearer token, a status
\* other than 200, a timeout, a connection error) the process reports
\* CRITICAL and exits with code 2 whatever the signals said.
C28_ProbeFailureIsCritical ==
    ProbeFailed => (mon.outcome = Verdict("CRITICAL", 2) /\ mon.code = 2)

\* every signal shows 48 h, the probe timed out: exit code 2
C28_Witness ==
    /\ mon.pc = "exited"
    /\ mon.doProbe
    /\ KnownSecs = {Hours(48)}
    /\ mon.hAccess.known /\ mon.hIdentity.known /\ mon.hSession.known
    /\ mon.critHours = 6 /\ mon.warnHours = 24
    /\ mon.signal = Verdict("OK", 0)
    /\ mon.probed.net = "timeout"
    /\ mon.code = 2

\* C29: the process exits with code 0 exactly when the verdict it reports
\* is OK, 1 exactly when it is WARN, 2 exactly when it is CRITICAL; with a
\* missing or unparseable session.json it exits with 2 before any signal is
\* read or any probe is made.
C29_ExitCodeIsVerdict ==
    mon.pc = "exited" =>
        /\ mon.code = 0 <=> mon.outcome.level = "OK"
        /\ mon.code = 1 <=> mon.outcome.level = "WARN"
        /\ mon.code = 2 <=> mon.outcome.level = "CRITICAL"
        /\ file.kind \in {"missing", "notjson"} =>
              (mon.code = 2 /\ ~mon.classified /\ mon.probe = "none")

---------------------------------------------------------------------------
(* Properties of shouldEnrich, checked under SpecEligible *)

\* the offer count is the number 0 (or the numeral "0")
CountIsZero(v) == (v.t = "number" /\ v.n = 0) \/ (v.t = "string" /\ v.s = "0")

\* C19: shouldEnrich is true exactly when the listing's own-offer count is
\* 0, its total-offer count is 0, its closing date parses and lies between
\* now and now + 72 h, both ends included.
C19_EligibleIffOpenAndClosingSoon ==
    se.pc = "returned" =>
        LET o == se.opportunity
            closing == parseClosingDate(o.fechaCierre)
        IN  se.result <=>
              /\ o.obj
              /\ CountIsZero(o.misOfertas)
              /\ CountIsZero(o.numeroOfertas)
              /\ closing # NoTime
              /\ 0 <= closing - se.nowMs
              /\ closing - se.nowMs <= 72 * 60 * 60 * 1000

---------------------------------------------------------------------------
(* Further properties of the crawl, checked under SpecCrawl and SpecCli *)

\* C32: between two consecutive page requests of a crawl the inter-page
\* delay is taken: a further page is asked for only by the step that ends
\* a delay, and the delays taken always number one less than the pages
\* asked for while a page is being fetched.
C32_DelayBetweenPages ==
    /\ [][(Len(cr'.fetched) > Len(cr.fetched) /\ Len(cr.fetched) > 0) =>
            (cr.pc = "pausing" /\ cr'.pauses = cr.pauses)]_vars
    /\ [](cr.pc = "fetching" => cr.pauses = Len(cr.fetched) - 1)
    /\ [](cr.pc = "pausing" => cr.pauses = Len(cr.fetched))
    /\ [](cr.pauses <= Len(cr.fetched))

\* the third page is being fetched after two delays
C32_Witness ==
    /\ cr.pc = "fetching"
    /\ cr.fetched = <<1, 2, 3>>
    /\ cr.pauses = 2
    /\ Len(cr.responses) = 2

\* the kinds of the result files written so far, in order
FileKindsWritten == [i \in 1..Len(cr.files) |-> cr.files[i].kind]

\* C39: the full and the summary file are written before enrichment
\* starts: while enrichOpportunities runs both exist and hold the crawled
\* listings, and when it fails the run fails with its error, both files
\* exist and no enriched file is written.
C39_FilesBeforeEnrichment ==
    /\ cr.pc = "enriching" =>
          /\ FileKindsWritten = <<"full", "summary">>
          /\ cr.files[1].items = cr.all
          /\ cr.files[2].items = cr.all
    /\ en.pc # "idle" => Len(cr.files) >= 2
    /\ (cr.pc = "failed" /\ en.pc = "failed") =>
          /\ FileKindsWritten = <<"full", "summary">>
          /\ cr.err = en.err
          /\ cr.files[1].items = cr.all
    /\ (cli.pc = "exited" /\ en.pc = "failed") => cli.code # 0

\* the crawl brought listings, then the token call of the enrichment
\* failed in its refresh: exit code 2 with the two files on disk
C39_Witness ==
    /\ cli.pc = "exited"
    /\ cli.code = 2
    /\ cr.pc = "failed"
    /\ en.pc = "failed"
    /\ en.err.name = "TokenRefreshError"
    /\ FileKindsWritten = <<"full", "summary">>
    /\ Len(cr.all) > 0

RECURSIVE IsSubsequence(_, _)
\* s can be had from t by deleting elements, keeping the order of the rest
IsSubsequence(s, t) ==
    IF Len(s) = 0 THEN TRUE
    ELSE IF Len(t) = 0 THEN FALSE
    ELSE IF Head(s) = Head(t) THEN IsSubsequence(Tail(s), Tail(t))
    ELSE IsSubsequence(s, Tail(t))

\* the listing codes of a list of listings or of records
CodesOf(s) == [i \in 1..Len(s) |-> s[i].codigo]

\* C36: the records enrichOpportunities returns follow the input order of
\* the eligible listings: their positions in the filtered list strictly
\* increase, their codes form a subsequence of the codes of the eligible
\* listings, which form a subsequence of the codes of the input; nothing
\* of a window is pushed before the whole window has settled, so the
\* order in which the calls of a window complete plays no part
C36_OutputKeepsInputOrder ==
    LET out == en.enriched
    IN  /\ \A a, b \in DOMAIN out : a < b => out[a].from < out[b].from
        /\ IsSubsequence(CodesOf(out), CodesOf(en.filtered))
        /\ en.input.isArray => IsSubsequence(CodesOf(en.filtered), CodesOf(en.input.items))
        /\ en.pc = "window" =>
              \A a \in DOMAIN out : out[a].from <= en.start
        /\ en.pc = "done" => out = RecordsUpTo(Len(en.filtered))

\* three eligible listings in windows of two: the second call of the first
\* window has completed with a record while the first is still backing
\* off, and nothing of the window is in the list yet
C36_Witness ==
    /\ en.pc = "window" /\ en.start = 0 /\ en.concurrency = 2
    /\ Len(en.filtered) = 3
    /\ en.tasks[1].fate = "running" /\ en.tasks[1].x.pc = "sleeping"
    /\ en.tasks[2].fate = "record"
    /\ en.tasks[3].fate = "pending"
    /\ en.enriched = <<>>

\* the enrichSingle calls that have a request in flight or a backoff running
RunningCalls == {i \in DOMAIN en.tasks : en.tasks[i].fate = "running"}

\* C38: the enrichment asks for its bearer token once, before the first
\* window, and every detail request of every window and every retry
\* carries that token; when no listing is eligible no token is asked for
\* and no request is made
C38_OneTokenForTheRun ==
    /\ [][gvt' # gvt => (en.pc = "idle" /\ en'.pc = "awaitToken"
                          /\ en'.windows = <<>> /\ en'.filtered # <<>>)]_vars
    /\ [][en'.bearer # en.bearer =>
            (en.pc = "awaitToken" /\ en.windows = <<>> /\ en'.bearer = gvt.token)]_vars
    /\ [](\A i \in RunningCalls :
              /\ en.tasks[i].x.bearer = en.bearer
              /\ en.bearer = gvt.token
              /\ gvt.pc = "returned"
              /\ en.bearer # NoToken)
    /\ []((en.pc # "idle" /\ Len(en.filtered) = 0) =>
              /\ en.pc = "done"
              /\ gvt = GvtIdle
              /\ en.bearer = NoToken
              /\ en.windows = <<>>
              /\ RunningCalls = {})

\* the only listing of the input has offers of the company: the run is
\* over, no token was asked for and no window was started
C38_NoEligibleNoToken ==
    /\ en.pc = "done" /\ Len(en.input.items) > 0 /\ Len(en.filtered) = 0
    /\ gvt = GvtIdle /\ en.windows = <<>>

\* the second window: its call is on the retry of its request with the
\* token the run obtained before the first window
C38_Witness ==
    /\ en.pc = "window" /\ Len(en.windows) = 2
    /\ \E i \in en.windows[2] :
          /\ en.tasks[i].fate = "running"
          /\ en.tasks[i].x.pc = "inflight"
          /\ en.tasks[i].x.attempt = 1
          /\ en.tasks[i].x.bearer = gvt.token
    /\ gvt.pc = "returned" /\ gvt.token # NoToken

---------------------------------------------------------------------------
(* Termination of the crawl, checked under SpecCrawlFair                   *)

\* Every request ends, by a response, a connection error or its timeout,
\* and every timer fires: a step that can be taken is eventually taken
MaxFairPages == 2

\* scrape() is called with at most MaxFairPages pages
StartShortScrape ==
    /\ cr.pc = "idle"
    /\ en.pc = "idle"
    /\ gvt.pc # "refreshing"
    /\ \E maxPages \in 1..MaxFairPages, enrich \in BOOLEAN, pageCount \in PageCounts :
          cr' = scrapeBegin(maxPages, enrich, pageCount)
    /\ gvt' = GvtBegin(file, now)
    /\ UNCHANGED <<file, now, insp, ex, en, se, cli, mon, web, flow>>

ShortCrawlNext ==
    \/ StartShortScrape
    \/ ScrapeTokenSettles
    \/ PageTokenSettles
    \/ RequestSettles
    \/ BackoffElapses
    \/ PageResolves
    \/ PageRejects
    \/ PauseElapses
    \/ EnrichTokenSettles
    \/ DetailSettles
    \/ DetailBackoffElapses
    \/ WindowSettles
    \/ EnrichmentSettles

SpecCrawlFair == CrawlInit /\ [][ShortCrawlNext]_vars /\ WF_vars(ShortCrawlNext)

CrawlOver == cr.pc \in {"done", "failed"}
EnrichOver == en.pc \in {"done", "failed"}

\* the requests the page fetch and the enrichSingle calls have issued stay
\* within their attempt limits, and the loops within their ranges
LoopsBounded ==
    /\ Len(cr.fetched) <= cr.maxPages
    /\ cr.page <= cr.maxPages + 1
    /\ ex.kind = "page" /\ ex.requests <= MaxAttempts /\ ex.attempt <= MaxAttempts
    /\ en.pc # "idle" =>
          /\ en.concurrency > 0
          /\ en.concurrency = DefaultConcurrency
          /\ en.maxRetries = DefaultMaxRetries
          /\ Len(en.windows) <= Len(en.filtered)
          /\ en.pc = "window" =>
                (en.start < Len(en.filtered) /\ BatchAt(en, en.start) # {})
          /\ \A i \in DOMAIN en.tasks :
                /\ en.tasks[i].x.requests <= en.maxRetries + 1
                /\ en.tasks[i].x.attempt <= en.maxRetries

\* C40: every crawl and every enrichment run comes to an end: the page
\* loop issues at most maxPages page fetches of at most three requests
\* each, the window loop advances by a positive concurrency (the options
\* scrape leaves out fall back to 5 and 3), every enrichSingle call issues
\* at most maxRetries + 1 requests, and a run that has begun is eventually
\* over
C40_RunsTerminate ==
    /\ []LoopsBounded
    /\ (cr.pc # "idle") ~> CrawlOver
    /\ (en.pc # "idle") ~> EnrichOver

\* the last request the run may make: the fourth request of a listing's
\* detail, after every page the run may ask for was fetched
C40_Witness ==
    /\ cr.pc = "enriching" /\ cr.maxPages = MaxFairPages /\ Len(cr.fetched) = MaxFairPages
    /\ en.pc = "window"
    /\ \E i \in DOMAIN en.tasks :
          /\ en.tasks[i].x.pc = "inflight"
          /\ en.tasks[i].x.requests = DefaultMaxRetries + 1

---------------------------------------------------------------------------
(* The call after a refresh, checked under SpecToken                       *)

\* the call that has ended refreshed the token and the token it returned
\* has a known expiry
EndedWithRefresh == gvt.pc = "returned" /\ gvt.refreshes = 1 /\ gvt.tokenExp # 0

\* the step is a new call of getValidToken
NewTokenCall == gvt.pc # "refreshing" /\ gvt' = GvtBegin(file, now) /\ gvt' # gvt

\* C37: when a call has refreshed the token to one valid for more than 300
\* seconds, the next call made while the token still has more than 300
\* seconds left returns that token from session.json, sends no refresh
\* request and writes nothing, whichever of the records access_token_ccr
\* and access_token the file held before the refresh
C37_RefreshedTokenServesNextCall ==
    [][(EndedWithRefresh /\ NewTokenCall
        /\ gvt.tokenExp - gvt.retAt > ACCESS_MIN_VALIDITY_SECONDS
        /\ gvt.tokenExp - now > ACCESS_MIN_VALIDITY_SECONDS)
       => /\ gvt'.pc = "returned"
          /\ gvt'.token = gvt.token
          /\ gvt'.tokenExp = gvt.tokenExp
          /\ gvt'.refreshes = 0
          /\ gvt'.writes = 0
          /\ file' = file]_vars

\* the call after the refresh returned the refreshed token from a file
\* that before the refresh held an unusable access_token_ccr record and no
\* access_token record: the refresh rewrote the one and added the other
C37_Witness ==
    /\ gvt.pc = "returned" /\ gvt.refreshes = 0 /\ gvt.writes = 0
    /\ gvt.callAt = Now0 + TickStep
    /\ gvt.token = Tok(11, Now0 + 3600)
    /\ gvt.fileAtCall = file
    /\ Len(file.cookies) = 3
    /\ file.cookies[1] = Cookie("access_token_ccr", Tok(11, Now0 + 3600), Now0 + 3600)
    /\ file.cookies[2].name = "refresh_token"
    /\ file.cookies[3] = Cookie("access_token", Tok(11, Now0 + 3600), Now0 + 3600)

---------------------------------------------------------------------------
(* Actions of the web server *)

\* pages and days of a request: none; in range; a text that begins with an
\* integer in range and goes on (2.5, 3 days); out of range
WebQueries ==
    { <<NoQuery, NoQuery>>,
      <<Query(TRUE, 1, TRUE), Query(TRUE, DaysLimit, TRUE)>>,
      <<Query(TRUE, 2, FALSE), Query(TRUE, 3, FALSE)>>,
      <<Query(TRUE, PagesLimit + 1, TRUE), Query(TRUE, 0, TRUE)>> }

\* payload.pageCount of the server the web runs crawl
WebPageCounts == {2}

\* GET /api/scrape/run arrives
WebRunRequest ==
    /\ cli.pc = "idle"
    /\ flow.pc = "idle"
    /\ \E q \in WebQueries, enrich \in BOOLEAN, pageCount \in WebPageCounts :
          LET w == webRunBegin(web, q[1], q[2], enrich)
          IN  /\ web' = w
              /\ IF w.answer = BusyStatus
                 THEN UNCHANGED <<gvt, ex, cr, en>>
                 ELSE /\ cr' = scrapeBegin(w.maxPages, w.enrich, pageCount)
                      /\ gvt' = GvtBegin(file, now)
                      /\ ex' = ExIdle
                      /\ en' = EnIdle
    /\ UNCHANGED <<file, now, insp, se, cli, mon, flow>>

\* The client of the accepted request goes away: its close event
ClientDisconnects ==
    /\ web.pc = "running"
    /\ ~web.streamClosed
    /\ web' = [web EXCEPT !.streamClosed = TRUE]
    /\ UNCHANGED <<file, now, gvt, insp, ex, cr, en, se, cli, mon, flow>>

\* scrape settled: the handler runs to its end
WebRunSettles ==
    /\ web.pc = "running"
    /\ cr.pc \in {"done", "failed"}
    /\ web' = webRunFinally(web, cr)
    /\ UNCHANGED <<file, now, gvt, insp, ex, cr, en, se, cli, mon, flow>>

WebInit ==
    /\ file \in CrawlFiles
    /\ now = Now0
    /\ gvt = GvtIdle
    /\ insp = InspNone
    /\ ex = ExIdle
    /\ cr = CrIdle
    /\ en = EnIdle
    /\ se = SeNone
    /\ cli = CliIdle
    /\ mon = MonIdle
    /\ web = WebIdle
    /\ flow = FlowIdle

\* the steps of a scrape the server has started
WebRunProgress ==
    \/ ScrapeTokenSettles
    \/ PageTokenSettles
    \/ RequestSettles
    \/ BackoffElapses
    \/ PageResolves
    \/ PageRejects
    \/ PauseElapses
    \/ EnrichTokenSettles
    \/ DetailSettles
    \/ DetailBackoffElapses
    \/ WindowSettles
    \/ EnrichmentSettles
    \/ WebRunSettles

WebNext ==
    \/ WebRunRequest
    \/ ClientDisconnects
    \/ WebRunProgress

\* the server: requests arrive at any time, one run after another
SpecWeb == WebInit /\ [][WebNext]_vars

\* Every request of a run ends, by a response, a connection error or its
\* timeout, and every timer fires
SpecWebFair == SpecWeb /\ WF_vars(WebRunProgress)

---------------------------------------------------------------------------
(* Properties of the web server, checked under SpecWeb and SpecWebFair     *)

\* the handler of an accepted request has not run to its end
RunExecuting == web.pc = "running"

\* a scrape is under way: scrape() has been called and has not settled
ScrapeUnderWay == cr.pc \notin {"idle", "done", "failed"}

\* a token call, a page request or a detail request is pending
RequestPending ==
    \/ gvt.pc = "refreshing"
    \/ ex.pc \in {"inflight", "sleeping"}
    \/ \E i \in DOMAIN en.tasks : en.tasks[i].fate = "running"

\* the step calls scrape() on a new scraper
StartsScrape == cr' # cr /\ cr'.pc = "awaitToken" /\ cr'.fetched = <<>>

\* the step answers a request with 429
AnswersBusy == web'.answer = BusyStatus /\ web' # web

\* C33: the server runs at most one scrape at a time: a scrape is started
\* only while the guard is free and no scrape is under way; a request that
\* arrives during a run is answered with 429 and changes nothing of the
\* run, the token manager or the requests in flight; and the guard is
\* taken exactly while a run executes
C33_OneScrapeAtATime ==
    /\ [][StartsScrape =>
            (~web.isRunInProgress /\ ~RunExecuting /\ ~ScrapeUnderWay
             /\ ~RequestPending /\ web'.answer = StreamStatus)]_vars
    /\ [][(web.isRunInProgress /\ web'.answer # web.answer) =>
            (/\ web' = [web EXCEPT !.answer = BusyStatus]
             /\ UNCHANGED <<file, gvt, ex, cr, en>>)]_vars
    /\ [][AnswersBusy => (web.isRunInProgress /\ UNCHANGED <<file, gvt, ex, cr, en>>)]_vars
    /\ [](web.isRunInProgress <=> RunExecuting)
    /\ []((ScrapeUnderWay \/ RequestPending) => web.isRunInProgress)
    /\ [](web.isRunInProgress <=> web.log = "patched")

\* a request was turned away while the run's page request was in flight:
\* the run goes on with the options of the request that was accepted
C33_Witness ==
    /\ web.isRunInProgress /\ web.answer = BusyStatus
    /\ cr.pc = "fetching" /\ ex.pc = "inflight"
    /\ cr.maxPages = web.maxPages
    /\ Len(cr.fetched) = 2

\* the guard is free and console.log is the original function
GuardReleased == ~web.isRunInProgress /\ web.log = "original"

\* C34: every accepted run releases the guard and restores console.log in
\* the end, whether the scrape succeeded or failed and whether or not the
\* client went away; once released, the next request is accepted
C34_GuardAlwaysReleased ==
    /\ web.isRunInProgress ~> GuardReleased
    /\ [](~RunExecuting => GuardReleased)
    /\ [][(RunExecuting /\ ~RunExecuting') =>
            (GuardReleased' /\ web'.ended /\ cr.pc \in {"done", "failed"})]_vars
    /\ [][(GuardReleased /\ web'.answer # web.answer) =>
            (web'.answer = StreamStatus /\ web'.isRunInProgress)]_vars

\* a run whose client went away and whose scrape failed has ended: nothing
\* was written to the closed stream, the guard is free again
C34_Witness ==
    /\ web.pc = "idle" /\ web.ended /\ web.streamClosed
    /\ web.sse = "none"
    /\ cr.pc = "failed" /\ cr.err.name = "TokenExpiredError"
    /\ GuardReleased

---------------------------------------------------------------------------
(* The options of a crawl, checked under SpecEntry                         *)

EntryNext ==
    \/ StartCli
    \/ CliExits
    \/ WebNext

\* a crawl is started from the command line, or by requests to the server
SpecEntry == WebInit /\ [][EntryNext]_vars

\* the query value is an integer numeral within min..max
WholeInRange(q, min, max) == q.parsed /\ q.whole /\ min <= q.value /\ q.value <= max

\* the query value begins with an integer within min..max
LeadInRange(q, min, max) == q.parsed /\ min <= q.value /\ q.value <= max

\* the command line ended before scrape was called
CliRejected == cli.pc = "exited" /\ cr.pc = "idle"

\* C31 as stated: the web endpoint runs with the default whenever the
\* value is no integer or out of range
C31_AsStated ==
    RunExecuting =>
        /\ ~WholeInRange(web.pages, 1, PagesLimit) => web.maxPages = DefaultMaxPages
        /\ ~WholeInRange(web.days, 1, DaysLimit) => web.daysBack = DefaultDaysBack

\* C31: a crawl runs with maxPages in 1..50 and daysBack in 1..90.  The
\* command line ends with code 1 before any request when --pages or --days
\* is no run of digits or out of range.  The web endpoint takes the
\* integer a value begins with when that is in range (2.5 runs as 2), and
\* the defaults 10 and 7 otherwise.
C31_OptionsInRange ==
    /\ ScrapeUnderWay =>
          /\ cr.maxPages \in 1..PagesLimit
          /\ RunExecuting \/ cli.pc = "running"
    /\ cli.pc = "running" =>
          /\ cli.maxPages \in 1..PagesLimit /\ cli.daysBack \in 1..DaysLimit
          /\ cr.maxPages = cli.maxPages
    /\ (cli.pc # "idle" /\ cr.pc = "idle") =>
          /\ CliRejected /\ cli.code = 1
          /\ gvt = GvtIdle /\ ex = ExIdle /\ en = EnIdle
    /\ \A pages \in CliPagesArgs, days \in CliDaysArgs :
          CliBegin(pages, days, FALSE).pc = "running"
             <=> (IsValidArg(pages, PagesLimit) /\ (days.given => IsValidArg(days, DaysLimit)))
    /\ RunExecuting =>
          /\ web.maxPages \in 1..PagesLimit /\ web.daysBack \in 1..DaysLimit
          /\ cr.maxPages = web.maxPages
          /\ web.maxPages = IF LeadInRange(web.pages, 1, PagesLimit)
                            THEN web.pages.value ELSE DefaultMaxPages
          /\ web.daysBack = IF LeadInRange(web.days, 1, DaysLimit)
                            THEN web.days.value ELSE DefaultDaysBack

\* the server crawls with the defaults for pages=51 and days=0: the second
\* page of ten is being fetched
C31_Witness ==
    /\ RunExecuting
    /\ web.pages = Query(TRUE, PagesLimit + 1, TRUE) /\ web.days = Query(TRUE, 0, TRUE)
    /\ web.maxPages = DefaultMaxPages /\ web.daysBack = DefaultDaysBack
    /\ cr.pc = "fetching" /\ cr.maxPages = DefaultMaxPages /\ Len(cr.fetched) = 2

\* the command line was given --pages=51: it ended with code 1 and nothing
\* was asked of the token manager
C31_CliRejects == CliRejected /\ cli.code = 1 /\ gvt = GvtIdle

---------------------------------------------------------------------------
(* Actions of the daily flow *)

\* session.json at the start of the flow: an access token good for 48
\* hours, for 10 hours, for 400 seconds, no dated record, the text null,
\* no file
DailyFiles ==
    { File("object", <<Cookie("access_token", Tok(1, Now0 + 48 * 3600), -1)>>),
      File("object", <<Cookie("access_token", Tok(1, Now0 + 10 * 3600), -1)>>),
      File("object", <<Cookie("access_token_ccr", Tok(1, Now0 + 400), -1)>>),
      File("object", <<Cookie("access_token", Tok(4, 0), -1)>>),
      File("null", <<>>),
      File("missing", <<>>) }

\* payload.pageCount of the server the daily run crawls
DailyPageCounts == {2}

\* ./run-daily.sh: node session-monitor.js --probe is run
StartDaily ==
    /\ flow.pc = "idle"
    /\ mon.pc = "idle"
    /\ \E crashCode \in CrashCodes :
          mon' = monitorBegin(file, now, NoEnv, NoEnv, TRUE, crashCode)
    /\ flow' = FlowRec("monitoring", -1, -1, -1)
    /\ UNCHANGED <<file, now, gvt, insp, ex, cr, en, se, cli, web>>

\* The health check has exited: the flow ends, or runs
\* node scraper-final.js --region-metropolitana --mis-rubros --days=1
DailyAfterMonitor ==
    /\ flow.pc = "monitoring"
    /\ mon.pc = "exited"
    /\ LET f == flowAfterMonitor(flow, mon.code)
           l == CliBegin(NoArg, NumArg(TRUE, TRUE, DailyDays), FALSE)
       IN  /\ flow' = f
           /\ IF f.pc = "scraping"
              THEN /\ cli' = l
                   /\ \E pageCount \in DailyPageCounts :
                         cr' = scrapeBegin(l.maxPages, l.enrich, pageCount)
                   /\ gvt' = GvtBegin(file, now)
              ELSE UNCHANGED <<cli, cr, gvt>>
    /\ UNCHANGED <<file, now, insp, ex, en, se, mon, web>>

\* The scraper has exited: exit $SCRAPE_EXIT, or exit 0
DailyAfterScrape ==
    /\ flow.pc = "scraping"
    /\ cli.pc = "exited"
    /\ flow' = flowAfterScrape(flow, cli.code)
    /\ UNCHANGED <<file, now, gvt, insp, ex, cr, en, se, cli, mon, web>>

DailyInit ==
    /\ file \in DailyFiles
    /\ now = Now0
    /\ gvt = GvtIdle
    /\ insp = InspNone
    /\ ex = ExIdle
    /\ cr = CrIdle
    /\ en = EnIdle
    /\ se = SeNone
    /\ cli = CliIdle
    /\ mon = MonIdle
    /\ web = WebIdle
    /\ flow = FlowIdle

DailyNext ==
    \/ StartDaily
    \/ ProbeSettles
    \/ DailyAfterMonitor
    \/ ScrapeTokenSettles
    \/ PageTokenSettles
    \/ RequestSettles
    \/ BackoffElapses
    \/ PageResolves
    \/ PageRejects
    \/ PauseElapses
    \/ CliExits
    \/ DailyAfterScrape

\* one run of the daily flow
SpecDaily == DailyInit /\ [][DailyNext]_vars

---------------------------------------------------------------------------
(* Properties of the daily flow, checked under SpecDaily                   *)

\* node scraper-final.js has been started
ScraperStarted == cli.pc # "idle"

\* the health check is over and the flow has acted on its exit code
MonitorActedOn == flow.pc \in {"scraping", "exited"}

\* C35: the scraper is started if and only if the health check, run with
\* the probe, exits with 0 or 1.  When it exits with 2 the scraper is never
\* started and the flow exits with 2.  When the scraper fails the flow
\* exits with the scraper's exit code, and the flow exits with 0 only after
\* a scrape that succeeded.
C35_DailyFlowFollowsHealth ==
    /\ [][(ScraperStarted' /\ ~ScraperStarted) =>
            (mon.pc = "exited" /\ mon.code \in {0, 1} /\ mon.doProbe)]_vars
    /\ [](MonitorActedOn =>
            /\ flow.monitorExit = mon.code
            /\ flow.monitorExit \in {0, 1, 2}
            /\ ScraperStarted <=> flow.monitorExit \in {0, 1})
    /\ [](ScraperStarted => MonitorActedOn)
    /\ [](mon.code = 2 =>
            /\ ~ScraperStarted /\ cr = CrIdle /\ gvt = GvtIdle /\ ex = ExIdle
            /\ flow.pc = "exited" => flow.code = 2)
    /\ []((flow.pc = "exited" /\ flow.monitorExit # 2) =>
            /\ cli.pc = "exited"
            /\ flow.scrapeExit = cli.code
            /\ flow.code = cli.code
            /\ flow.code = 0 <=> cr.pc = "done")
    /\ [](flow.code = 0 => (flow.pc = "exited" /\ cr.pc = "done" /\ cli.code = 0))

\* the health check warned (10 hours left, the probe answered 200), the
\* scraper was run, its page request was refused with 401, and the flow
\* ended with the scraper's code 2
C35_Witness ==
    /\ flow.pc = "exited" /\ flow.monitorExit = 1 /\ mon.outcome.level = "WARN"
    /\ mon.probe = "ok"
    /\ cli.code = 2 /\ cr.pc = "failed"
    /\ flow.scrapeExit = 2 /\ flow.code = 2

====
